---------------------------- MODULE Spec2Model ----------------------------
(***************************************************************************)
(* Ominis protocol: the indexer's event synchronizer and order store       *)
(* (src/indexer), the solver bot's commit-reveal paths (src/sdk) and the   *)
(* oracle submission loops (src/verifier/oracle, src/sdk/oracle_service).  *)
(***************************************************************************)
EXTENDS Integers, Sequences, FiniteSets, TLC

VARIABLES
    \* ---- indexer: OrderStore (src/indexer/models.py) ----
    db,                   \* [orders, solutions, challenges]: the three tables
    \* ---- indexer: delivery of events to the handlers ----
    delivered,            \* ledger indexes handed to _handle_event at least once
    lastEv,               \* index of the event delivered last (0: none yet)
    dup,                  \* the last delivery repeated the delivery before it
    \* ---- indexer: EventListener (src/indexer/event_listener.py) ----
    ledger,               \* the chain's event log: the block of its i-th event
    head,                 \* w3.eth.block_number
    start_block,          \* EventListener.start_block
    running,              \* EventListener.running
    last_processed_block, \* EventListener.last_processed_block (the checkpoint)
    from_block,           \* _sync_historical_events: from_block
    current_block,        \* _sync_historical_events: current_block
    lpc,                  \* where the listener task is
    applied,              \* ledger indexes in the order their handlers completed
    ranges,               \* the block ranges handed to _process_block_range, in order
    sync_cancelled,       \* catch-up left its loop because running was cleared
    on_new_event,         \* EventListener.on_new_event is set (a callback was given)
    notified,             \* ledger indexes on_new_event was awaited for, in order
    callback_failed,      \* ledger indexes whose on_new_event call raised
    handler_failed,       \* ledger indexes whose handling raised before on_new_event
    \* ---- the ledger, as the solver bot sees it ----
    ostatus,              \* order id -> the order's status on the ledger
    osolver,              \* order id -> its solver: "none", "bot", "other"
    ocommit,              \* order id -> the salt of the commitment the ledger holds
    assigned,             \* order ids assigned to this bot (OrderAssignedToBot)
    pending,              \* commit transactions sent, not mined yet: <<order, salt>>
    \* ---- solver bot (src/sdk/bot_server.py, src/sdk/ominis_sdk.py) ----
    active_orders,        \* bot_state.active_orders
    processed_orders,     \* AutoSolver.processed_orders
    stop_event,           \* bot_state.stop_event
    th,                   \* context -> [pc, order, salt, polls, receipt, seen]
    nsalt,                \* salts drawn so far (os.urandom(32): each one new)
    reveals,              \* the reveals submitted: [ctx, confirmed]
    reveal_submitted,     \* salts whose reveal transaction was submitted
    gave_up,              \* contexts that ended an attempt on an unconfirmed commit
    time_left,            \* order id -> seconds to its deadline (Order.time_remaining)
    \* ---- the verifier contract, as the oracles see it ----
    pending_verifications,\* getPendingVerifications()
    is_processed,         \* order ids whose verification request is processed
    new_entries,          \* VerificationRequested events the filter has not returned
    \* ---- oracles (src/verifier/oracle/oracle_node.py, src/sdk/oracle_service.py) ----
    node_running,         \* OracleNode.running
    node_processed,       \* OracleNode.processed_orders
    co,                   \* OracleNode coroutine -> [pc, order]
    service_pending,      \* OracleService.run: the pending list of this cycle
    service_processed,    \* OracleService.processed_orders
    service_failed,       \* orders process_order returned for without a verification, this cycle
    submitted,            \* oracle -> order id -> verification transactions sent
    \* ---- verifier API (src/verifier/api) ----
    sympy_outcome,        \* SympySolver.verify: the return statement it reached
    sympy_result,         \* SympySolver.verify: [is_correct, confidence]
    gpt_json,             \* the JSON GPT answered: [is_correct, confidence]
    challenger_evaluation,\* GPTSolver.evaluate_challenge: is_valid
    response,             \* the response of /verify or /challenge
    \* ---- pure functions of the SDK and the bot (ominis_sdk.py, bot_server.py) ----
    commit_args,          \* compute_commit_hash: [solution, salt]
    commit_hash,          \* what compute_commit_hash returned for commit_args
    verified,             \* a check of commit_hash: [solution, salt, ok]
    gpt_content,          \* parse_gpt_solution: content, as its lines
    parsed,               \* what parse_gpt_solution returned for gpt_content
    \* ---- the verdict an oracle submits (oracle_service.py, oracle_node.py) ----
    service_results,      \* OracleService: what verify_with_sympy / verify_with_gpt returned
    verdict,              \* submitVerification(order, is_correct, reason): [path, is_correct]
    \* ---- OracleNode._poll_pending_verifications, page by page ----
    pending_list,         \* the ledger's pending verifications, in the order it lists them
    order_ids,            \* the ids of the fetched page the loop has not reached yet
    attempted,            \* the ids _process_verification has worked on
    \* ---- the bot server's threads (src/sdk/bot_server.py) ----
    bot_running,          \* bot_state.running
    bot_threads,          \* Thread(target=bot_loop) number n -> where it is
    asked,                \* the bot_loop threads a POST /stop found alive
    callers,              \* a caller of the AutoSolver -> [pc, order]
    solve_started         \* order id -> calls of solve_and_submit begun

idxVars == <<db, delivered, lastEv, dup>>
lsnVars == <<ledger, head, start_block, running, last_processed_block,
             from_block, current_block, lpc, applied, ranges, sync_cancelled>>
botAux == <<time_left>>
botVars == <<ostatus, osolver, ocommit, assigned, pending, active_orders,
             processed_orders, stop_event, th, nsalt, reveals, reveal_submitted,
             gave_up, botAux>>
orcVars == <<pending_verifications, is_processed, new_entries, node_running,
             node_processed, co, service_pending, service_processed, service_failed, submitted>>
apiVars == <<sympy_outcome, sympy_result, gpt_json, challenger_evaluation, response>>
sdkVars == <<commit_args, commit_hash, verified, gpt_content, parsed>>
ntfVars == <<on_new_event, notified, callback_failed, handler_failed>>
auxVars == <<service_results, verdict, pending_list, order_ids, attempted>>
ctlVars == <<bot_running, bot_threads, asked, callers, solve_started>>
restVars == <<botVars, orcVars, apiVars, sdkVars, auxVars, ctlVars>>
othVars == <<restVars, ntfVars>>
notBotVars == <<idxVars, lsnVars, orcVars, apiVars, sdkVars, ntfVars, auxVars, ctlVars>>
notOrcVars == <<idxVars, lsnVars, botVars, apiVars, sdkVars, ntfVars, auxVars, ctlVars>>
notApiVars == <<idxVars, lsnVars, botVars, orcVars, sdkVars, ntfVars, auxVars, ctlVars>>
notSdkVars == <<idxVars, lsnVars, botVars, orcVars, apiVars, ntfVars, auxVars, ctlVars>>

-----------------------------------------------------------------------------
(* Values *)

None == "None"
\* a NULL timestamp column
NoTime == <<>>
\* an event argument the event kind does not carry
NoArg == 0 - 1

\* OrderStatus, src/sdk/ominis_sdk.py:41-50 (the indexer stores the same codes)
OPEN == 0
ACCEPTED == 1
COMMITTED == 2
REVEALED == 3
VERIFIED == 4
CHALLENGED == 5
EXPIRED == 6
CANCELLED == 7

Min(a, b) == IF a < b THEN a ELSE b

-----------------------------------------------------------------------------
(* Ledger events (CORE_EVENTS_ABI) *)

\* the kinds _process_block_range fetches, in the order it fetches them
Kinds == <<"ProblemPosted", "OrderAccepted", "SolutionCommitted",
           "SolutionRevealed", "ChallengeSubmitted">>

Ev(kind, o, b, tx) ==
    [kind |-> kind, orderId |-> o, blockNumber |-> b, tx |-> tx,
     issuer      |-> IF kind = "ProblemPosted" THEN "issuer" ELSE None,
     problemType |-> IF kind = "ProblemPosted" THEN 0 ELSE NoArg,
     timeTier    |-> IF kind = "ProblemPosted" THEN 1 ELSE NoArg,
     reward      |-> IF kind = "ProblemPosted" THEN 5 ELSE NoArg,
     solver      |-> IF kind \in {"OrderAccepted", "SolutionCommitted", "SolutionRevealed"}
                     THEN "solver" ELSE None,
     commitHash  |-> IF kind = "SolutionCommitted" THEN "hash" ELSE None,
     solution    |-> IF kind = "SolutionRevealed" THEN "answer" ELSE None,
     challenger  |-> IF kind = "ChallengeSubmitted" THEN "challenger" ELSE None,
     challengerWon |-> kind = "ChallengeResolved",
     stake       |-> IF kind = "ChallengeSubmitted" THEN 7 ELSE NoArg]

\* the time of handling (datetime.now()) in place of the block's time: it
\* differs from one delivery to the next
timestamp_now(b) == <<"now", lastEv, dup>>

\* datetime.fromtimestamp(block.timestamp): the block's time, one per block
timestamp_of(b) == <<"t", b>>

-----------------------------------------------------------------------------
(* Database (src/indexer/models.py) *)

\* A table is a function from the keys of its rows to the rows.
EmptyDb == [orders |-> <<>>, solutions |-> <<>>, challenges |-> <<>>]

HasRow(table, key) == key \in DOMAIN table

\* INSERT OR REPLACE: the row of the later delivery takes the place of the row
insert_order_replace(d, order) ==
    [d EXCEPT !.orders = (order.id :> order) @@ @]

\* INSERT ... ON CONFLICT (id) DO UPDATE SET status, solver
insert_order(d, order) ==
    IF ~HasRow(d.orders, order.id)
    THEN [d EXCEPT !.orders = @ @@ (order.id :> order)]
    ELSE [d EXCEPT !.orders[order.id].status = order.status,
                   !.orders[order.id].solver = order.solver]

\* UPDATE orders SET status (, solver) WHERE id: no row, no change
update_order_status(d, order_id, status, solver) ==
    IF ~HasRow(d.orders, order_id) THEN d
    ELSE IF solver # None
         THEN [d EXCEPT !.orders[order_id].status = status,
                        !.orders[order_id].solver = solver]
         ELSE [d EXCEPT !.orders[order_id].status = status]

\* solutions.order_id and challenges.order_id REFERENCES orders(id)
fk_violation(d, order_id) == ~HasRow(d.orders, order_id)

\* an upsert that leaves is_revealed out of its DO UPDATE SET list
insert_solution_flag_kept(d, s) ==
    IF ~HasRow(d.solutions, s.order_id)
    THEN [d EXCEPT !.solutions = @ @@ (s.order_id :> s)]
    ELSE [d EXCEPT !.solutions[s.order_id].solution = s.solution,
                   !.solutions[s.order_id].salt = s.salt,
                   !.solutions[s.order_id].reveal_time = s.reveal_time]

\* INSERT ... ON CONFLICT (order_id) DO UPDATE SET solution, salt, reveal_time, is_revealed
insert_solution(d, s) ==
    IF ~HasRow(d.solutions, s.order_id)
    THEN [d EXCEPT !.solutions = @ @@ (s.order_id :> s)]
    ELSE [d EXCEPT !.solutions[s.order_id].solution = s.solution,
                   !.solutions[s.order_id].salt = s.salt,
                   !.solutions[s.order_id].reveal_time = s.reveal_time,
                   !.solutions[s.order_id].is_revealed = s.is_revealed]

\* the row, or None when there is none (checked with HasRow)
get_solution(d, order_id) ==
    IF HasRow(d.solutions, order_id) THEN d.solutions[order_id] ELSE None

\* INSERT ... ON CONFLICT (order_id) DO UPDATE SET resolved, challenger_won
insert_challenge(d, c) ==
    IF ~HasRow(d.challenges, c.order_id)
    THEN [d EXCEPT !.challenges = @ @@ (c.order_id :> c)]
    ELSE [d EXCEPT !.challenges[c.order_id].resolved = c.resolved,
                   !.challenges[c.order_id].challenger_won = c.challenger_won]

-----------------------------------------------------------------------------
(* EventListener handlers (src/indexer/event_listener.py)                  *)
(* A handler returns [db, ok]: ok is FALSE when it raised.                 *)

handle_problem_posted(d, e) ==
    [db |-> insert_order(d,
                [id |-> e.orderId, issuer |-> e.issuer, problem_hash |-> "",
                 problem_type |-> e.problemType, time_tier |-> e.timeTier,
                 status |-> OPEN, reward |-> <<"str", e.reward>>,
                 created_at |-> timestamp_of(e.blockNumber),
                 deadline |-> timestamp_of(e.blockNumber),
                 solver |-> None, tx_hash |-> e.tx,
                 block_number |-> e.blockNumber]),
     ok |-> TRUE]

handle_order_accepted(d, e) ==
    [db |-> update_order_status(d, e.orderId, ACCEPTED, e.solver), ok |-> TRUE]

handle_solution_committed(d, e) ==
    IF fk_violation(d, e.orderId) THEN [db |-> d, ok |-> FALSE]
    ELSE [db |-> update_order_status(
                    insert_solution(d,
                        [order_id |-> e.orderId, solver |-> e.solver,
                         commit_hash |-> <<"hex", e.commitHash>>,
                         solution |-> None, salt |-> None,
                         commit_time |-> timestamp_of(e.blockNumber),
                         reveal_time |-> NoTime, is_revealed |-> FALSE,
                         tx_hash |-> e.tx]),
                    e.orderId, COMMITTED, None),
          ok |-> TRUE]

handle_solution_revealed(d, e) ==
    LET existing == get_solution(d, e.orderId)
        d1 == IF HasRow(d.solutions, e.orderId)
              THEN insert_solution(d,
                       [existing EXCEPT !.solution = e.solution,
                                        !.reveal_time = timestamp_of(e.blockNumber),
                                        !.is_revealed = TRUE])
              ELSE d
    IN  [db |-> update_order_status(d1, e.orderId, REVEALED, None), ok |-> TRUE]

handle_challenge_submitted(d, e) ==
    IF fk_violation(d, e.orderId) THEN [db |-> d, ok |-> FALSE]
    ELSE [db |-> update_order_status(
                    insert_challenge(d,
                        [order_id |-> e.orderId, challenger |-> e.challenger,
                         stake |-> <<"str", e.stake>>, reason |-> "",
                         challenge_time |-> timestamp_of(e.blockNumber),
                         resolved |-> FALSE, challenger_won |-> FALSE,
                         tx_hash |-> e.tx]),
                    e.orderId, CHALLENGED, None),
          ok |-> TRUE]

\* _handle_event: get_block may raise (rpc_fails) before the dispatch; any
\* exception is logged and swallowed. An unknown kind reaches no handler.
handle_event(d, e, rpc_fails) ==
    IF rpc_fails THEN [db |-> d, ok |-> FALSE]
    ELSE CASE e.kind = "ProblemPosted"      -> handle_problem_posted(d, e)
           [] e.kind = "OrderAccepted"      -> handle_order_accepted(d, e)
           [] e.kind = "SolutionCommitted"  -> handle_solution_committed(d, e)
           [] e.kind = "SolutionRevealed"   -> handle_solution_revealed(d, e)
           [] e.kind = "ChallengeSubmitted" -> handle_challenge_submitted(d, e)
           [] OTHER                         -> [db |-> d, ok |-> TRUE]

-----------------------------------------------------------------------------
(* The ledgers the model runs on *)

\* number of events on the ledger
LedgerLen == 7

\* Two orders going through their lifecycles, interleaved: <<kind, order id>>
Template ==
    <<<<"ProblemPosted", 1>>, <<"OrderAccepted", 1>>, <<"ProblemPosted", 2>>,
      <<"SolutionCommitted", 1>>, <<"SolutionRevealed", 1>>,
      <<"OrderAccepted", 2>>, <<"ChallengeSubmitted", 1>>,
      <<"ChallengeResolved", 1>>,
      <<"SolutionCommitted", 2>>, <<"SolutionRevealed", 2>>,
      <<"ChallengeSubmitted", 2>>>>

\* the ledger whose i-th event is mined in block blockOf[i]
LedgerWith(blockOf) == [i \in 1..Min(LedgerLen, Len(Template)) |-> blockOf[i]]

\* the i-th event of ledger l
EventAt(l, i) == Ev(Template[i][1], Template[i][2], l[i], i)

\* one event per block, from block 1 on
StoreLedger == LedgerWith([i \in 1..Len(Template) |-> i])

-----------------------------------------------------------------------------
(* The solver bot and the oracles as constructed                           *)

\* how many orders the ledger holds
NumOrders == 2
Orders == 1..NumOrders

\* the execution contexts that run a commit-reveal sequence
Threads == {"bot_loop", "auto_solver", "webhook", "submit_solution"}

\* a context that is not working on any order
IdleThread ==
    [pc |-> "idle", order |-> 0, salt |-> 0, polls |-> 0,
     receipt |-> FALSE, seen |-> FALSE]

\* BotState() and AutoSolver(): empty registries, every order OPEN
InitBot ==
    /\ ostatus = [o \in Orders |-> OPEN]
    /\ osolver = [o \in Orders |-> "none"]
    /\ ocommit = [o \in Orders |-> 0]
    /\ assigned = {}
    /\ pending = {}
    /\ active_orders = {}
    /\ processed_orders = {}
    /\ stop_event = FALSE
    /\ th = [t \in Threads |-> IdleThread]
    /\ nsalt = 0
    /\ reveals = {}
    /\ reveal_submitted = {}
    /\ gave_up = {}
    /\ time_left = [o \in Orders |-> 90]

Coroutines == {"poll", "listen"}
Oracles == {"node", "service"}

\* OracleNode() after start(), OracleService()
InitOracle ==
    /\ pending_verifications = {}
    /\ is_processed = {}
    /\ new_entries = {}
    /\ node_running = TRUE
    /\ node_processed = {}
    /\ co = [c \in Coroutines |-> [pc |-> "idle", order |-> 0]]
    /\ service_pending = {}
    /\ service_processed = {}
    /\ service_failed = {}
    /\ submitted = [p \in Oracles |-> [o \in Orders |-> 0]]

\* no oracle has verified anything
NoVerdict == [path |-> "none", is_correct |-> FALSE]

InitAuxIdle ==
    /\ service_results = [sympy |-> "None", gpt |-> "None"]
    /\ verdict = NoVerdict
    /\ pending_list = <<>>
    /\ order_ids = <<>>
    /\ attempted = {}

\* how many times POST /start launches a bot_loop thread in one run
MaxStarts == 3
BotThreads == 1..MaxStarts

\* the callers of the AutoSolver: its own thread and the two endpoints
SolverCallers == {"run_loop", "run_once", "solve_assigned"}

IdleCaller == [pc |-> "idle", order |-> 0]

\* BotState(): running = False, no thread; no AutoSolver call under way
InitCtlIdle ==
    /\ bot_running = FALSE
    /\ bot_threads = [t \in BotThreads |-> "unstarted"]
    /\ asked = {}
    /\ callers = [c \in SolverCallers |-> IdleCaller]
    /\ solve_started = [o \in Orders |-> 0]

\* after one POST /start: the first bot_loop thread is in its main loop
InitCtlStarted ==
    /\ bot_running = TRUE
    /\ bot_threads = [t \in BotThreads |-> IF t = 1 THEN "iteration" ELSE "unstarted"]
    /\ asked = {}
    /\ callers = [c \in SolverCallers |-> IdleCaller]
    /\ solve_started = [o \in Orders |-> 0]

\* no call of compute_commit_hash or parse_gpt_solution has been made
InitSdkIdle ==
    /\ commit_args = [solution |-> <<>>, salt |-> <<>>]
    /\ commit_hash = <<>>
    /\ verified = <<>>
    /\ gpt_content = <<>>
    /\ parsed = <<>>

\* no request has reached the verifier API
NoResponse == [endpoint |-> "none"]

InitApiIdle ==
    /\ sympy_outcome = "unknown"
    /\ sympy_result = [is_correct |-> FALSE, confidence |-> 0]
    /\ gpt_json = [is_correct |-> FALSE, confidence |-> 0]
    /\ challenger_evaluation = FALSE
    /\ response = NoResponse

-----------------------------------------------------------------------------
(* Delivery of ledger events to the handlers, in any order, any number of  *)
(* times (at-least-once delivery, replay after a restart)                  *)

\* EventListener(...) without on_new_event: the parameter's default, None
InitNoCallback ==
    /\ on_new_event = FALSE
    /\ notified = <<>>
    /\ callback_failed = {}
    /\ handler_failed = {}

InitIdx ==
    /\ db = EmptyDb
    /\ delivered = {}
    /\ lastEv = 0
    /\ dup = FALSE
    /\ InitNoCallback

InitListenerIdle ==
    /\ head = 0
    /\ start_block = 0
    /\ running = FALSE
    /\ last_processed_block = 0
    /\ from_block = 0
    /\ current_block = 0
    /\ lpc = "created"
    /\ applied = <<>>
    /\ ranges = <<>>
    /\ sync_cancelled = FALSE

InitStore ==
    /\ InitIdx
    /\ ledger = StoreLedger
    /\ InitListenerIdle
    /\ InitBot
    /\ InitOracle
    /\ InitAuxIdle
    /\ InitCtlIdle
    /\ InitApiIdle
    /\ InitSdkIdle

Deliver(i) ==
    /\ db' = handle_event(db, EventAt(ledger, i), FALSE).db
    /\ delivered' = delivered \cup {i}
    /\ dup' = (lastEv = i)
    /\ lastEv' = i
    /\ UNCHANGED <<lsnVars, othVars>>

NextStore == \E i \in 1..Len(ledger) : Deliver(i)

\* the i-th event as a block that was later replaced carried it: the same
\* kind and order id, another block and other arguments
StaleEventAt(l, i) ==
    LET e == EventAt(l, i)
    IN  [e EXCEPT !.blockNumber = 0,
                  !.tx = 0,
                  !.issuer = IF e.issuer = None THEN None ELSE "issuer0",
                  !.reward = IF e.reward = NoArg THEN NoArg ELSE 3,
                  !.solver = IF e.solver = None THEN None ELSE "solver0",
                  !.commitHash = IF e.commitHash = None THEN None ELSE "hash0"]

\* _handle_event for the stale form of a ProblemPosted or SolutionCommitted
DeliverStale(i) ==
    /\ EventAt(ledger, i).kind \in {"ProblemPosted", "SolutionCommitted"}
    /\ db' = handle_event(db, StaleEventAt(ledger, i), FALSE).db
    /\ dup' = (lastEv = i)
    /\ lastEv' = i
    /\ UNCHANGED <<delivered, lsnVars, othVars>>

\* deliveries of the ledger's events and of their stale forms, in any order
NextRedeliver ==
    \/ \E i \in 1..Len(ledger) : Deliver(i)
    \/ \E i \in 1..Len(ledger) : DeliverStale(i)

\* the store after each event of the ledger was applied once, in ledger order
RECURSIVE InOrder(_, _)
InOrder(l, n) ==
    IF n = 0 THEN EmptyDb ELSE handle_event(InOrder(l, n - 1), EventAt(l, n), FALSE).db

-----------------------------------------------------------------------------
(* EventListener: catch-up, then tailing (src/indexer/event_listener.py)   *)

\* _sync_historical_events: chunk_size
chunk_size == 1000

\* the block heights the chain head and the configured start take
Heights == {0, 1, 2, chunk_size, chunk_size + 1, chunk_size + 2, 2499, 2500}
StartBlocks == {0, 1}

\* where the events of the ledger are mined
BlockPlans ==
    {[i \in 1..Len(Template) |-> i],
     [i \in 1..Len(Template) |-> (i - 1) * 400],
     [i \in 1..Len(Template) |-> chunk_size - 2 + i]}

\* contract.events.<kind>.get_logs(fromBlock, toBlock), in log order
get_logs(l, kind, lo, hi) ==
    LET InRange(i) == /\ EventAt(l, i).kind = kind
                      /\ lo <= EventAt(l, i).blockNumber
                      /\ EventAt(l, i).blockNumber <= hi
    IN  SelectSeq([i \in 1..Len(l) |-> i], InRange)

\* _process_block_range: events.extend(...) kind after kind
RECURSIVE events_in_range(_, _, _, _)
events_in_range(l, lo, hi, k) ==
    IF k = 0 THEN <<>>
    ELSE events_in_range(l, lo, hi, k - 1) \o get_logs(l, Kinds[k], lo, hi)

\* what on_new_event raises leaves _handle_event as an exception
callback_exception_propagates(called, callback_fails) == called /\ callback_fails

\* _handle_event: the call of on_new_event is inside the try block, so what
\* it raises is caught and logged by the except clause
callback_exception_escapes(called, callback_fails) == FALSE

\* _handle_event with its broadcast: after the handler returned, on_new_event
\* is awaited if it is set; it may raise (callback_fails)
handle_event_notify(d, e, rpc_fails, notify, callback_fails) ==
    LET r      == handle_event(d, e, rpc_fails)
        called == r.ok /\ notify
    IN  [db |-> r.db, ok |-> r.ok, called |-> called,
         callback_failed |-> called /\ callback_fails,
         raised |-> callback_exception_escapes(called, callback_fails)]

\* _process_block_range before its loop: the store as it is, nothing handled
NothingHandled(d) ==
    [db |-> d, done |-> <<>>, notified |-> <<>>, callback_failed |-> {},
     handler_failed |-> {}]

\* _process_block_range: for event_type, event in events: _handle_event(...)
\* failing: the events whose handling raises inside _handle_event;
\* cb_failing: the events whose on_new_event call raises.
\* sofar and the result: the store, the events whose handlers completed, those
\* on_new_event was awaited for, those whose callback raised and those whose
\* handling raised. An exception that left _handle_event would end the loop.
RECURSIVE handle_all(_, _, _, _, _, _)
handle_all(sofar, l, evs, failing, notify, cb_failing) ==
    IF evs = <<>> THEN sofar
    ELSE LET i == Head(evs)
             r == handle_event_notify(sofar.db, EventAt(l, i), i \in failing, notify,
                                      i \in cb_failing)
             next == [db |-> r.db,
                      done |-> IF r.ok THEN Append(sofar.done, i) ELSE sofar.done,
                      notified |-> IF r.called THEN Append(sofar.notified, i)
                                   ELSE sofar.notified,
                      callback_failed |-> IF r.callback_failed
                                          THEN sofar.callback_failed \cup {i}
                                          ELSE sofar.callback_failed,
                      handler_failed |-> IF r.ok THEN sofar.handler_failed
                                         ELSE sofar.handler_failed \cup {i}]
         IN  IF r.raised THEN next
             ELSE handle_all(next, l, Tail(evs), failing, notify, cb_failing)

\* _process_block_range(from_block, to_block): a get_logs call that raises
\* (fetch_fails) leaves the whole range unhandled; the exception is logged.
process_block_range(d, l, lo, hi, fetch_fails, failing, notify, cb_failing) ==
    IF fetch_fails THEN NothingHandled(d)
    ELSE handle_all(NothingHandled(d), l, events_in_range(l, lo, hi, Len(Kinds)),
                    failing, notify, cb_failing)

\* the subsets of S with at most n elements
RECURSIVE SubsetsUpTo(_, _)
SubsetsUpTo(S, n) ==
    IF n = 0 THEN {{}}
    ELSE LET smaller == SubsetsUpTo(S, n - 1)
         IN  smaller \cup {F \cup {i} : F \in smaller, i \in S}

\* how many events of one range may fail in _handle_event
MaxFailing == 1

InitSync ==
    /\ InitIdx
    /\ ledger \in {LedgerWith(plan) : plan \in BlockPlans}
    /\ head \in Heights
    /\ start_block \in StartBlocks
    /\ running = FALSE
    /\ last_processed_block = start_block
    /\ from_block = 0
    /\ current_block = 0
    /\ lpc = "created"
    /\ applied = <<>>
    /\ ranges = <<>>
    /\ sync_cancelled = FALSE
    /\ InitBot
    /\ InitOracle
    /\ InitAuxIdle
    /\ InitCtlIdle
    /\ InitApiIdle
    /\ InitSdkIdle

\* number of events on a ledger that goes on to the resolution of the
\* challenge on order 1
ResolvedLen == 8

\* that ledger, one event per block from block 1 on
ResolvedLedger == [i \in 1..ResolvedLen |-> i]

\* a listener constructed over the ledger with the resolved challenge
InitResolve ==
    /\ InitIdx
    /\ ledger = ResolvedLedger
    /\ head \in Heights
    /\ start_block \in StartBlocks
    /\ running = FALSE
    /\ last_processed_block = start_block
    /\ from_block = 0
    /\ current_block = 0
    /\ lpc = "created"
    /\ applied = <<>>
    /\ ranges = <<>>
    /\ sync_cancelled = FALSE
    /\ InitBot
    /\ InitOracle
    /\ InitAuxIdle
    /\ InitCtlIdle
    /\ InitApiIdle
    /\ InitSdkIdle

\* a listener constructed as main.py does: on_new_event = broadcast_event
InitNotify ==
    /\ db = EmptyDb
    /\ delivered = {}
    /\ lastEv = 0
    /\ dup = FALSE
    /\ on_new_event = TRUE
    /\ notified = <<>>
    /\ callback_failed = {}
    /\ handler_failed = {}
    /\ ledger = StoreLedger
    /\ head \in Heights
    /\ start_block \in StartBlocks
    /\ running = FALSE
    /\ last_processed_block = start_block
    /\ from_block = 0
    /\ current_block = 0
    /\ lpc = "created"
    /\ applied = <<>>
    /\ ranges = <<>>
    /\ sync_cancelled = FALSE
    /\ InitBot
    /\ InitOracle
    /\ InitAuxIdle
    /\ InitCtlIdle
    /\ InitApiIdle
    /\ InitSdkIdle

\* the part of a step that runs _process_block_range(lo, hi)
ProcessRange(lo, hi) ==
    LET InRange == {i \in 1..Len(ledger) : lo <= ledger[i] /\ ledger[i] <= hi}
    IN  \E fetch_fails \in BOOLEAN :
          \E failing \in (IF fetch_fails THEN {{}}
                          ELSE SubsetsUpTo(InRange, MaxFailing)) :
            \E cb_failing \in (IF fetch_fails \/ ~on_new_event THEN {{}}
                               ELSE SubsetsUpTo(InRange \ failing, MaxFailing)) :
              LET r == process_block_range(db, ledger, lo, hi, fetch_fails, failing,
                                           on_new_event, cb_failing)
              IN  /\ cb_failing \subseteq r.callback_failed
                  /\ db' = r.db
                  /\ applied' = applied \o r.done
                  /\ ranges' = Append(ranges, <<lo, hi>>)
                  /\ notified' = notified \o r.notified
                  /\ callback_failed' = callback_failed \cup r.callback_failed
                  /\ handler_failed' = handler_failed \cup r.handler_failed

\* start(): running = True
Start ==
    /\ lpc = "created"
    /\ running' = TRUE
    /\ lpc' = "sync_begin"
    /\ UNCHANGED <<idxVars, ledger, head, start_block, last_processed_block,
                   from_block, current_block, applied, ranges, sync_cancelled>>
    /\ UNCHANGED othVars

\* _sync_historical_events up to its loop
SyncBegin ==
    /\ lpc = "sync_begin"
    /\ current_block' = head
    /\ IF last_processed_block >= head
       THEN /\ lpc' = "sync_done"
            /\ UNCHANGED from_block
       ELSE /\ lpc' = "sync_loop"
            /\ from_block' = last_processed_block
    /\ UNCHANGED <<idxVars, ledger, head, start_block, running,
                   last_processed_block, applied, ranges, sync_cancelled>>
    /\ UNCHANGED othVars

\* one iteration of the catch-up loop
SyncChunk ==
    /\ lpc = "sync_loop"
    /\ from_block < current_block /\ running
    /\ LET to_block == Min(from_block + chunk_size, current_block)
       IN  /\ ProcessRange(from_block, to_block)
           /\ from_block' = to_block + 1
           /\ last_processed_block' = to_block
    /\ UNCHANGED <<delivered, lastEv, dup, ledger, head, start_block, running,
                   current_block, lpc, sync_cancelled>>
    /\ UNCHANGED <<restVars, on_new_event>>

\* the catch-up loop ends and _sync_historical_events returns
SyncDone ==
    /\ lpc = "sync_loop"
    /\ ~(from_block < current_block /\ running)
    /\ sync_cancelled' = (from_block < current_block)
    /\ lpc' = "sync_done"
    /\ UNCHANGED <<idxVars, ledger, head, start_block, running,
                   last_processed_block, from_block, current_block, applied, ranges>>
    /\ UNCHANGED othVars

\* start() goes on to _listen_for_new_events
TailBegin ==
    /\ lpc = "sync_done"
    /\ lpc' = "tail"
    /\ UNCHANGED <<idxVars, ledger, head, start_block, running,
                   last_processed_block, from_block, current_block, applied,
                   ranges, sync_cancelled>>
    /\ UNCHANGED othVars

\* one iteration of _listen_for_new_events; reading the block number may raise
TailCycle ==
    /\ lpc = "tail"
    /\ running
    /\ \E rpc_fails \in BOOLEAN :
         IF ~rpc_fails /\ head > last_processed_block
         THEN /\ ProcessRange(last_processed_block + 1, head)
              /\ last_processed_block' = head
         ELSE /\ rpc_fails
              /\ UNCHANGED <<db, applied, ranges, last_processed_block, notified,
                             callback_failed, handler_failed>>
    /\ UNCHANGED <<delivered, lastEv, dup, ledger, head, start_block, running,
                   from_block, current_block, lpc, sync_cancelled>>
    /\ UNCHANGED <<restVars, on_new_event>>

\* the tail loop sees running cleared
TailExit ==
    /\ lpc = "tail"
    /\ ~running
    /\ lpc' = "stopped"
    /\ UNCHANGED <<idxVars, ledger, head, start_block, running,
                   last_processed_block, from_block, current_block, applied,
                   ranges, sync_cancelled>>
    /\ UNCHANGED othVars

\* stop(): running = False
Stop ==
    /\ running
    /\ running' = FALSE
    /\ UNCHANGED <<idxVars, ledger, head, start_block, last_processed_block,
                   from_block, current_block, lpc, applied, ranges, sync_cancelled>>
    /\ UNCHANGED othVars

\* the chain grows
NewBlock ==
    /\ \E h \in Heights : h > head /\ head' = h
    /\ UNCHANGED <<idxVars, ledger, start_block, running, last_processed_block,
                   from_block, current_block, lpc, applied, ranges, sync_cancelled>>
    /\ UNCHANGED othVars

NextSync ==
    \/ Start \/ SyncBegin \/ SyncChunk \/ SyncDone \/ TailBegin
    \/ TailCycle \/ TailExit \/ Stop \/ NewBlock

-----------------------------------------------------------------------------
(* The ledger's order contract: acceptOrder, commitSolution, revealSolution *)

\* acceptOrder is applied to an OPEN order only
can_accept(o) == ostatus[o] = OPEN

\* commitSolution is applied for the order's solver: the one that accepted
\* it, or the bot the order was assigned to (no acceptOrder needed then)
can_commit(o) ==
    \/ ostatus[o] = ACCEPTED /\ osolver[o] = "bot"
    \/ ostatus[o] = OPEN /\ o \in assigned

\* revealSolution is applied when the digest of (solution, salt) is the
\* commitment the ledger holds
can_reveal(o, s) == ostatus[o] = COMMITTED /\ ocommit[o] = s

-----------------------------------------------------------------------------
(* The commit-reveal sequence, as each context runs it                     *)

\* config['max_concurrent']
max_concurrent == 3

\* bot_loop takes an order with at least this many seconds left
claim_time_margin == 60

\* the time left below which bot_loop warns and AutoSolver skips an order
min_time_margin == 30

\* the values Order.time_remaining takes as the deadline comes up
TimeValues == {90, 45, 15}

\* the status polls that follow an unsuccessful commit receipt
bot_loop_retries == 5
auto_solver_retries == 3
webhook_retries == 3
submit_solution_retries == 0

Budget(t) ==
    CASE t = "bot_loop" -> bot_loop_retries
      [] t = "auto_solver" -> auto_solver_retries
      [] t = "webhook" -> webhook_retries
      [] OTHER -> submit_solution_retries

\* how many salts are drawn in one run
MaxSalts == 2

\* the contexts that enter their order in bot_state.active_orders
Registers(t) == t \in {"bot_loop", "auto_solver"}

\* the context's try block is left: finally active_orders.discard(order)
Leave(t, rec) ==
    /\ th' = [th EXCEPT ![t] = rec]
    /\ active_orders' =
         IF rec.pc = "idle" /\ Registers(t)
         THEN active_orders \ {th[t].order}
         ELSE active_orders

\* a salt that is not drawn anew: every sequence works with salt 1
DrawSalt_constant(t, o) ==
    /\ nsalt < MaxSalts
    /\ nsalt' = nsalt + 1
    /\ th' = [th EXCEPT ![t] = [IdleThread EXCEPT !.pc = "commit", !.order = o,
                                                  !.salt = 1]]

\* salt = os.urandom(32), then on to commit_solution
DrawSalt(t, o) ==
    /\ nsalt < MaxSalts
    /\ nsalt' = nsalt + 1
    /\ th' = [th EXCEPT ![t] = [IdleThread EXCEPT !.pc = "commit", !.order = o,
                                                  !.salt = nsalt + 1]]

\* _send_transaction: mined with status 1, mined with status 0, no receipt
\* within the timeout (status False, the transaction still in flight), or
\* an exception of the RPC
TxOutcomes == {"success", "reverted", "timeout", "raises"}

\* where a context goes after commit_solution returned
after_commit(t, outcome) ==
    IF outcome = "success" THEN "reveal"
    ELSE IF outcome = "raises" THEN "idle"
    ELSE IF Budget(t) = 0 THEN "idle"
    ELSE "poll"

\* sdk.commit_solution(order, solution, salt) and the test of its receipt
CommitSolution(t) ==
    LET o == th[t].order
        s == th[t].salt
    IN  /\ th[t].pc = "commit"
        /\ \E outcome \in TxOutcomes :
             LET nxt == after_commit(t, outcome)
             IN  /\ outcome = "success" => can_commit(o)
                 /\ IF outcome = "success"
                    THEN /\ ostatus' = [ostatus EXCEPT ![o] = COMMITTED]
                         /\ osolver' = [osolver EXCEPT ![o] = "bot"]
                         /\ ocommit' = [ocommit EXCEPT ![o] = s]
                    ELSE UNCHANGED <<ostatus, osolver, ocommit>>
                 /\ pending' = IF outcome = "timeout"
                               THEN pending \cup {<<o, s>>} ELSE pending
                 /\ gave_up' = IF nxt = "idle" /\ outcome # "raises"
                               THEN gave_up \cup {t} ELSE gave_up
                 /\ Leave(t, IF nxt = "idle" THEN IdleThread
                             ELSE [th[t] EXCEPT !.pc = nxt,
                                                !.receipt = (outcome = "success")])
        /\ UNCHANGED <<assigned, processed_orders, stop_event, nsalt, reveals,
                       reveal_submitted,
                   notBotVars, botAux>>

\* the retry loop read as a loop without its else branch: the reveal follows
\* the last poll whatever it read
after_poll_fallthrough(budget, used, status) ==
    IF status = COMMITTED THEN "reveal"
    ELSE IF used + 1 < budget THEN "poll"
    ELSE "reveal"

\* one pass of `for retry in range(budget)`: break on COMMITTED, else the
\* next pass, else (budget used up) the attempt has failed
after_poll(budget, used, status) ==
    IF status = COMMITTED THEN "reveal"
    ELSE IF used + 1 < budget THEN "poll"
    ELSE "idle"

\* sleep, sdk.get_order(order), test of check_order.status
PollStatus(t) ==
    LET o == th[t].order
    IN  /\ th[t].pc = "poll"
        /\ \E rpc_fails \in BOOLEAN :
             LET nxt == IF rpc_fails THEN "idle"
                        ELSE after_poll(Budget(t), th[t].polls, ostatus[o])
             IN  /\ gave_up' = IF nxt = "idle" /\ ~rpc_fails
                               THEN gave_up \cup {t} ELSE gave_up
                 /\ Leave(t, IF nxt = "idle" THEN IdleThread
                             ELSE [th[t] EXCEPT !.pc = nxt,
                                                !.polls = @ + 1,
                                                !.seen = (ostatus[o] = COMMITTED)])
        /\ UNCHANGED <<ostatus, osolver, ocommit, assigned, pending,
                       processed_orders, stop_event, nsalt, reveals,
                       reveal_submitted,
                   notBotVars, botAux>>

\* what the context has seen of its commit: a successful receipt, a poll
\* within its budget that read COMMITTED, or neither
Confirmed(t) ==
    IF th[t].receipt THEN "receipt"
    ELSE IF th[t].seen /\ 1 <= th[t].polls /\ th[t].polls <= Budget(t) THEN "poll"
    ELSE "none"

\* sdk.reveal_solution(order, solution, salt); the sequence ends with it
RevealSolution(t) ==
    LET o == th[t].order
        s == th[t].salt
    IN  /\ th[t].pc = "reveal"
        /\ \E outcome \in TxOutcomes \ {"timeout"} :
             /\ outcome = "success" => can_reveal(o, s)
             /\ ostatus' = IF outcome = "success"
                           THEN [ostatus EXCEPT ![o] = REVEALED] ELSE ostatus
             /\ IF outcome = "raises"
                THEN UNCHANGED <<reveals, reveal_submitted>>
                ELSE /\ reveals' = reveals \cup
                                     {[ctx |-> t, confirmed |-> Confirmed(t)]}
                     /\ reveal_submitted' = reveal_submitted \cup {s}
        /\ Leave(t, IdleThread)
        /\ UNCHANGED <<osolver, ocommit, assigned, pending, processed_orders,
                       stop_event, nsalt, gave_up,
                   notBotVars, botAux>>

-----------------------------------------------------------------------------
(* bot_loop: the polling loop over the open orders                         *)

\* a loop that never reads the stop signal
stop_never_seen == FALSE

\* bot_state.stop_event.is_set(), read by bot_loop before each order and by
\* AutoSolver.run_loop before each run_once (with self.running, which /stop
\* clears together with setting the event)
stop_requested == stop_event

\* an open order passes the filters and is entered in active_orders
BotLoopClaim(o) ==
    /\ th["bot_loop"].pc = "idle"
    /\ ~stop_requested
    /\ ostatus[o] = OPEN
    /\ o \notin active_orders
    /\ ~(time_left[o] < claim_time_margin)
    /\ Cardinality(active_orders) < max_concurrent
    /\ active_orders' = active_orders \cup {o}
    /\ th' = [th EXCEPT !["bot_loop"] = [IdleThread EXCEPT !.pc = "accept",
                                                           !.order = o]]
    /\ UNCHANGED <<ostatus, osolver, ocommit, assigned, pending, processed_orders,
                   stop_event, nsalt, reveals, reveal_submitted, gave_up,
                   notBotVars, botAux>>

\* Step 1: sdk.accept_order; an unsuccessful receipt ends the attempt
BotLoopAccept ==
    LET o == th["bot_loop"].order
    IN  /\ th["bot_loop"].pc = "accept"
        /\ \E success \in BOOLEAN :
             /\ success => can_accept(o)
             /\ IF success
                THEN /\ ostatus' = [ostatus EXCEPT ![o] = ACCEPTED]
                     /\ osolver' = [osolver EXCEPT ![o] = "bot"]
                     /\ Leave("bot_loop", [th["bot_loop"] EXCEPT !.pc = "solve"])
                ELSE /\ UNCHANGED <<ostatus, osolver>>
                     /\ Leave("bot_loop", IdleThread)
        /\ UNCHANGED <<ocommit, assigned, pending, processed_orders, stop_event,
                       nsalt, reveals, reveal_submitted, gave_up,
                   notBotVars, botAux>>

\* Step 2 and the re-check of the order before the submission
BotLoopRecheck ==
    LET o == th["bot_loop"].order
    IN  /\ th["bot_loop"].pc = "solve"
        /\ IF osolver[o] # "bot" \/ ostatus[o] = COMMITTED
           THEN /\ Leave("bot_loop", IdleThread)
                /\ UNCHANGED nsalt
           ELSE /\ DrawSalt("bot_loop", o)
                /\ UNCHANGED active_orders
        /\ UNCHANGED <<ostatus, osolver, ocommit, assigned, pending,
                       processed_orders, stop_event, reveals, reveal_submitted,
                       gave_up,
                   notBotVars, botAux>>

BotLoopCommit == CommitSolution("bot_loop")

BotLoopPoll == PollStatus("bot_loop")

BotLoopReveal == RevealSolution("bot_loop")

-----------------------------------------------------------------------------
(* AutoSolver: the orders assigned to this bot                             *)

\* run_once: check_order_needs_solving, the two registries, solve_and_submit
\* up to its salt
AutoSolverClaim(o) ==
    /\ th["auto_solver"].pc = "idle"
    /\ ~stop_requested
    /\ o \in assigned
    /\ o \notin processed_orders
    /\ ostatus[o] \in {OPEN, ACCEPTED}
    /\ ~(time_left[o] < min_time_margin)
    /\ processed_orders' = processed_orders \cup {o}
    /\ active_orders' = active_orders \cup {o}
    /\ DrawSalt("auto_solver", o)
    /\ UNCHANGED <<ostatus, osolver, ocommit, assigned, pending, stop_event,
                   reveals, reveal_submitted, gave_up,
                   notBotVars, botAux>>

AutoSolverCommit == CommitSolution("auto_solver")

AutoSolverPoll == PollStatus("auto_solver")

AutoSolverReveal == RevealSolution("auto_solver")

-----------------------------------------------------------------------------
(* The webhook handler and OminisSDK.submit_solution                       *)

\* receive_problem_webhook up to its salt
WebhookReceive(o) ==
    /\ th["webhook"].pc = "idle"
    /\ DrawSalt("webhook", o)
    /\ UNCHANGED <<ostatus, osolver, ocommit, assigned, pending, active_orders,
                   processed_orders, stop_event, reveals, reveal_submitted,
                   gave_up,
                   notBotVars, botAux>>

WebhookCommit == CommitSolution("webhook")

WebhookPoll == PollStatus("webhook")

WebhookReveal == RevealSolution("webhook")

\* submit_solution up to its salt
SubmitSolutionCall(o) ==
    /\ th["submit_solution"].pc = "idle"
    /\ DrawSalt("submit_solution", o)
    /\ UNCHANGED <<ostatus, osolver, ocommit, assigned, pending, active_orders,
                   processed_orders, stop_event, reveals, reveal_submitted,
                   gave_up,
                   notBotVars, botAux>>

SubmitSolutionCommit == CommitSolution("submit_solution")

SubmitSolutionReveal == RevealSolution("submit_solution")

-----------------------------------------------------------------------------
(* The bot's environment                                                   *)

\* the platform assigns an open order to this bot
AssignToBot(o) ==
    /\ ostatus[o] = OPEN
    /\ o \notin assigned
    /\ assigned' = assigned \cup {o}
    /\ UNCHANGED <<ostatus, osolver, ocommit, pending, active_orders,
                   processed_orders, stop_event, th, nsalt, reveals,
                   reveal_submitted, gave_up,
                   notBotVars, botAux>>

\* another solver accepts an open order
OtherSolverAccepts(o) ==
    /\ ostatus[o] = OPEN
    /\ o \notin assigned
    /\ ostatus' = [ostatus EXCEPT ![o] = ACCEPTED]
    /\ osolver' = [osolver EXCEPT ![o] = "other"]
    /\ UNCHANGED <<ocommit, assigned, pending, active_orders, processed_orders,
                   stop_event, th, nsalt, reveals, reveal_submitted, gave_up,
                   notBotVars, botAux>>

\* the solver that accepted an order commits its own solution
OtherSolverCommits(o) ==
    /\ ostatus[o] = ACCEPTED
    /\ osolver[o] = "other"
    /\ ostatus' = [ostatus EXCEPT ![o] = COMMITTED]
    /\ UNCHANGED <<osolver, ocommit, assigned, pending, active_orders,
                   processed_orders, stop_event, th, nsalt, reveals,
                   reveal_submitted, gave_up, notBotVars, botAux>>

\* the deadline of an order comes closer
TimePasses(o) ==
    /\ \E v \in TimeValues :
         /\ v < time_left[o]
         /\ \A w \in TimeValues : ~(v < w /\ w < time_left[o])
         /\ time_left' = [time_left EXCEPT ![o] = v]
    /\ UNCHANGED <<ostatus, osolver, ocommit, assigned, pending, active_orders,
                   processed_orders, stop_event, th, nsalt, reveals,
                   reveal_submitted, gave_up, notBotVars>>

\* a commit transaction whose receipt wait timed out is mined
CommitLands(o, s) ==
    /\ <<o, s>> \in pending
    /\ pending' = pending \ {<<o, s>>}
    /\ IF can_commit(o)
       THEN /\ ostatus' = [ostatus EXCEPT ![o] = COMMITTED]
            /\ osolver' = [osolver EXCEPT ![o] = "bot"]
            /\ ocommit' = [ocommit EXCEPT ![o] = s]
       ELSE UNCHANGED <<ostatus, osolver, ocommit>>
    /\ UNCHANGED <<assigned, active_orders, processed_orders, stop_event, th,
                   nsalt, reveals, reveal_submitted, gave_up,
                   notBotVars, botAux>>

\* the bot_loop threads that have not returned
AliveThreads == {t \in BotThreads : bot_threads[t] \notin {"unstarted", "exited"}}

\* POST /stop: refused when bot_state.running is false; stop_event.set(),
\* running = False
StopBot ==
    /\ bot_running
    /\ stop_event' = TRUE
    /\ bot_running' = FALSE
    /\ asked' = asked \cup AliveThreads
    /\ UNCHANGED <<ostatus, osolver, ocommit, assigned, pending, active_orders,
                   processed_orders, th, nsalt, reveals, reveal_submitted,
                   gave_up, botAux, bot_threads, callers, solve_started,
                   idxVars, lsnVars, orcVars, apiVars, sdkVars, ntfVars, auxVars>>

InitBotSpec ==
    /\ InitIdx
    /\ ledger = <<>>
    /\ InitListenerIdle
    /\ InitBot
    /\ InitOracle
    /\ InitAuxIdle
    /\ InitCtlStarted
    /\ InitApiIdle
    /\ InitSdkIdle

\* bot_loop
NextBotLoop ==
    \/ \E o \in Orders : BotLoopClaim(o)
    \/ BotLoopAccept \/ BotLoopRecheck
    \/ BotLoopCommit \/ BotLoopPoll \/ BotLoopReveal

\* AutoSolver.run_loop
NextAutoSolver ==
    \/ \E o \in Orders : AutoSolverClaim(o)
    \/ AutoSolverCommit \/ AutoSolverPoll \/ AutoSolverReveal

\* the Flask handler and the SDK's convenience call
NextCalls ==
    \/ \E o \in Orders : WebhookReceive(o)
    \/ WebhookCommit \/ WebhookPoll \/ WebhookReveal
    \/ \E o \in Orders : SubmitSolutionCall(o)
    \/ SubmitSolutionCommit \/ SubmitSolutionReveal

\* the ledger, the platform, the other solvers, the operator
NextBotEnv ==
    \/ \E o \in Orders : AssignToBot(o)
    \/ \E o \in Orders : OtherSolverAccepts(o)
    \/ \E o \in Orders : OtherSolverCommits(o)
    \/ \E o \in Orders, s \in 1..MaxSalts : CommitLands(o, s)
    \/ StopBot

NextBot == NextBotLoop \/ NextAutoSolver \/ NextCalls \/ NextBotEnv

\* the two loops that read Order.time_remaining, as deadlines come up
NextDeadline ==
    \/ NextBotLoop \/ NextAutoSolver \/ NextBotEnv
    \/ \E o \in Orders : TimePasses(o)

-----------------------------------------------------------------------------
(* The verifier contract                                                   *)

\* submitVerificationResult / verifyAndSettle is applied to a pending request
can_verify(o) == o \in pending_verifications

\* how many verification transactions one oracle sends for one order in a run
MaxSubmits == 2

\* the ledger after a verification transaction for order o was mined
Settle(o, mined) ==
    IF mined /\ can_verify(o)
    THEN /\ pending_verifications' = pending_verifications \ {o}
         /\ is_processed' = is_processed \cup {o}
    ELSE UNCHANGED <<pending_verifications, is_processed>>

\* a solution was revealed: the contract asks for its verification
VerificationRequested(o) ==
    /\ o \notin pending_verifications \cup is_processed
    /\ pending_verifications' = pending_verifications \cup {o}
    /\ new_entries' = new_entries \cup {o}
    /\ UNCHANGED <<is_processed, node_running, node_processed, co,
                   service_pending, service_processed, service_failed, submitted, notOrcVars>>

-----------------------------------------------------------------------------
(* OracleNode: _poll_pending_verifications and _listen_for_events run as   *)
(* two coroutines of one event loop; a coroutine yields at an await only   *)

\* _process_verification up to `await self.http_client.post(...)`
EnterProcessVerification(c, o) ==
    co' = IF o \in node_processed
          THEN co
          ELSE [co EXCEPT ![c] = [pc |-> "post", order |-> o]]

\* the polling loop takes a pending order it has not processed
PollPendingVerifications(o) ==
    /\ node_running
    /\ co["poll"].pc = "idle"
    /\ o \in pending_verifications
    /\ o \notin node_processed
    /\ EnterProcessVerification("poll", o)
    /\ UNCHANGED <<pending_verifications, is_processed, new_entries, node_running,
                   node_processed, service_pending, service_processed, service_failed, submitted,
                   notOrcVars>>

\* the event loop takes a new VerificationRequested entry
ListenForEvents(o) ==
    /\ node_running
    /\ co["listen"].pc = "idle"
    /\ o \in new_entries
    /\ new_entries' = new_entries \ {o}
    /\ EnterProcessVerification("listen", o)
    /\ UNCHANGED <<pending_verifications, is_processed, node_running,
                   node_processed, service_pending, service_processed, service_failed, submitted,
                   notOrcVars>>

\* _submit_verification_result: the transaction is sent and its receipt
\* returned, the transaction applied to the ledger's state ("mined", status 1
\* or 0 as the ledger decides) or reverted for another reason such as its gas
\* ("reverted", status 0), or the call raises before ("raises") or after
\* ("sent_raises") the transaction went out
SubmitOutcomes == {"mined", "reverted", "sent_raises", "raises"}

\* _process_verification from the response of the verification API on
ProcessVerification(c) ==
    LET o == co[c].order
    IN  /\ co[c].pc = "post"
        /\ co' = [co EXCEPT ![c] = [pc |-> "idle", order |-> 0]]
        /\ \E status_200 \in BOOLEAN, tx \in SubmitOutcomes, mined \in BOOLEAN :
             IF status_200 /\ tx # "raises"
             THEN /\ submitted["node"][o] < MaxSubmits
                  /\ tx = "mined" => mined
                  /\ tx = "reverted" => ~mined
                  /\ submitted' = [submitted EXCEPT !["node"][o] = @ + 1]
                  /\ Settle(o, mined)
                  /\ node_processed' = IF tx \in {"mined", "reverted"}
                                       THEN node_processed \cup {o}
                                       ELSE node_processed
             ELSE /\ ~mined /\ tx = "raises"
                  /\ UNCHANGED <<submitted, pending_verifications, is_processed,
                                 node_processed>>
        /\ UNCHANGED <<new_entries, node_running, service_pending,
                       service_processed, service_failed, notOrcVars>>

\* stop(): running = False
NodeStop ==
    /\ node_running
    /\ node_running' = FALSE
    /\ UNCHANGED <<pending_verifications, is_processed, new_entries,
                   node_processed, co, service_pending, service_processed, service_failed,
                   submitted, notOrcVars>>

-----------------------------------------------------------------------------
(* OracleService: one loop                                                 *)

\* run(): pending = self.get_pending_verifications(), or [] when it raises
ServiceGetPending ==
    /\ service_pending = {}
    /\ \E rpc_fails \in BOOLEAN :
         service_pending' = IF rpc_fails THEN {} ELSE pending_verifications
    /\ service_pending' # {}
    /\ service_failed' = {}
    /\ UNCHANGED <<pending_verifications, is_processed, new_entries, node_running,
                   node_processed, co, service_processed, submitted, notOrcVars>>

\* process_order and submit_verification: receipt status 1 (True), status 0
\* (False), no receipt in time (False, the transaction still in flight), an
\* exception before sending (False), or no request fetched (return before)
ServiceOutcomes == {"success", "reverted", "timeout", "raises", "no_request"}

\* the orders of the cycle left when a failure ends the cycle
rest_of_cycle_abandoned(o, failed) ==
    IF failed THEN {} ELSE service_pending \ {o}

\* run(): the orders of the cycle still to come when process_order has
\* returned for order o, its failures caught and logged inside
rest_of_cycle(o, failed) ==
    service_pending \ {o}

\* run(): one order of the list, through process_order and submit_verification
ServiceProcessOrder(o) ==
    /\ o \in service_pending
    /\ IF o \in service_processed
       THEN /\ service_pending' = rest_of_cycle(o, FALSE)
            /\ UNCHANGED <<service_processed, service_failed, submitted,
                           pending_verifications, is_processed>>
       ELSE IF o \in is_processed
       THEN /\ service_pending' = rest_of_cycle(o, FALSE)
            /\ service_processed' = service_processed \cup {o}
            /\ UNCHANGED <<service_failed, submitted, pending_verifications,
                           is_processed>>
       ELSE \E tx \in ServiceOutcomes, mined \in BOOLEAN :
              /\ tx = "success" => mined /\ can_verify(o)
              /\ tx \in {"reverted", "raises", "no_request"} => ~mined
              /\ tx \notin {"raises", "no_request"} =>
                     submitted["service"][o] < MaxSubmits
              /\ submitted' = IF tx \in {"raises", "no_request"} THEN submitted
                              ELSE [submitted EXCEPT !["service"][o] = @ + 1]
              /\ Settle(o, mined)
              /\ service_processed' = IF tx = "success"
                                      THEN service_processed \cup {o}
                                      ELSE service_processed
              /\ service_failed' = IF tx = "success"
                                   THEN service_failed
                                   ELSE service_failed \cup {o}
              /\ service_pending' = rest_of_cycle(o, tx # "success")
    /\ UNCHANGED <<new_entries, node_running, node_processed, co, notOrcVars>>

InitOracleSpec ==
    /\ InitIdx
    /\ ledger = <<>>
    /\ InitListenerIdle
    /\ InitBot
    /\ InitOracle
    /\ InitAuxIdle
    /\ InitCtlIdle
    /\ InitApiIdle
    /\ InitSdkIdle

NextOracle ==
    \/ \E o \in Orders : VerificationRequested(o)
    \/ \E o \in Orders : PollPendingVerifications(o)
    \/ \E o \in Orders : ListenForEvents(o)
    \/ \E c \in Coroutines : ProcessVerification(c)
    \/ NodeStop
    \/ ServiceGetPending
    \/ \E o \in Orders : ServiceProcessOrder(o)

-----------------------------------------------------------------------------
(* The verifier API: /verify and /challenge (src/verifier/api)             *)
(* Confidences of the solvers are written in hundredths (0.95 is 95); the  *)
(* confidence of a response is written in units of 1/6000, in which every  *)
(* product and quotient of the two routes is a whole number.               *)

\* a confidence given in hundredths, in units of 1/6000
Pts(c) == c * 60

\* the confidence 1.0 of a response
One == Pts(100)

\* the confidences SympySolver.verify returns, and the thresholds' neighbours
SympyConfidences == {0, 10, 30, 50, 80, 81, 90, 91, 95, 100}

\* the "confidence" of the JSON GPT answers, also outside 0.0-1.0
GptConfidences == {0 - 20, 0, 50, 60, 80, 81, 90, 91, 95, 100, 130}

\* min(1.0, max(0.0, confidence))
clamp(c) == IF c < 0 THEN 0 ELSE IF c > 100 THEN 100 ELSE c

\* GPTSolver.verify: the VerificationResult made from the JSON
gpt_verify(json) ==
    [is_correct |-> json.is_correct, confidence |-> clamp(json.confidence)]

\* (sympy + gpt) / 1.5, not capped
combined_confidence_uncapped(cs, cg) == (cs + cg) * 40

\* min(1.0, (sympy_result.confidence + gpt_result.confidence) / 1.5)
combined_confidence(cs, cg) == Min(One, (cs + cg) * 40)

VerifyResponse(is_correct, confidence, method) ==
    [endpoint |-> "verify", is_correct |-> is_correct,
     confidence |-> confidence, method |-> method]

\* SymPy returned verbatim from 0.9 excluded on
verify_solution_above(sr, gr) ==
    IF sr.confidence > 90
    THEN VerifyResponse(sr.is_correct, Pts(sr.confidence), "sympy")
    ELSE IF sr.confidence > 0 /\ gr.confidence > 0
    THEN IF sr.is_correct = gr.is_correct
         THEN VerifyResponse(sr.is_correct,
                             combined_confidence(sr.confidence, gr.confidence),
                             "sympy+gpt")
         ELSE IF sr.confidence > gr.confidence
         THEN VerifyResponse(sr.is_correct, sr.confidence * 48, "sympy (disputed)")
         ELSE VerifyResponse(gr.is_correct, gr.confidence * 48, "gpt (disputed)")
    ELSE VerifyResponse(gr.is_correct, Pts(gr.confidence), "gpt")

\* verify_solution, from the two results to the response
verify_solution(sr, gr) ==
    IF sr.confidence >= 90
    THEN VerifyResponse(sr.is_correct, Pts(sr.confidence), "sympy")
    ELSE IF sr.confidence > 0 /\ gr.confidence > 0
    THEN IF sr.is_correct = gr.is_correct
         THEN VerifyResponse(sr.is_correct,
                             combined_confidence(sr.confidence, gr.confidence),
                             "sympy+gpt")
         ELSE IF sr.confidence > gr.confidence
         THEN VerifyResponse(sr.is_correct, sr.confidence * 48, "sympy (disputed)")
         ELSE VerifyResponse(gr.is_correct, gr.confidence * 48, "gpt (disputed)")
    ELSE VerifyResponse(gr.is_correct, Pts(gr.confidence), "gpt")

ChallengeResponse(challenger_wins, confidence) ==
    [endpoint |-> "challenge", challenger_wins |-> challenger_wins,
     confidence |-> confidence]

\* the decision with the test of GPT's confidence before that of SymPy's
process_challenge_gpt_first(sr, gr, is_valid) ==
    IF ~sr.is_correct /\ sr.confidence > 80 /\ ~gr.is_correct /\ gr.confidence > 80
    THEN ChallengeResponse(TRUE, Pts(95))
    ELSE IF sr.is_correct /\ sr.confidence > 80 /\ gr.is_correct /\ gr.confidence > 80
    THEN ChallengeResponse(FALSE, Pts(95))
    ELSE IF gr.confidence > 90
    THEN ChallengeResponse(~gr.is_correct, gr.confidence * 51)
    ELSE IF sr.confidence > 90
    THEN ChallengeResponse(~sr.is_correct, sr.confidence * 54)
    ELSE IF is_valid
    THEN ChallengeResponse(TRUE, Pts(70))
    ELSE ChallengeResponse(FALSE, Pts(60))

\* process_challenge, from the two results and the evaluation to the response
process_challenge(sr, gr, is_valid) ==
    IF ~sr.is_correct /\ sr.confidence > 80 /\ ~gr.is_correct /\ gr.confidence > 80
    THEN ChallengeResponse(TRUE, Pts(95))
    ELSE IF sr.is_correct /\ sr.confidence > 80 /\ gr.is_correct /\ gr.confidence > 80
    THEN ChallengeResponse(FALSE, Pts(95))
    ELSE IF sr.confidence > 90
    THEN ChallengeResponse(~sr.is_correct, sr.confidence * 54)
    ELSE IF gr.confidence > 90
    THEN ChallengeResponse(~gr.is_correct, gr.confidence * 51)
    ELSE IF is_valid
    THEN ChallengeResponse(TRUE, Pts(70))
    ELSE ChallengeResponse(FALSE, Pts(60))

\* the return statements of SympySolver.verify
SympyFailures == {"problem_not_parsed", "expected_not_computed",
                  "solution_not_parsed", "exception"}
SympyOutcomes == SympyFailures \cup {"match", "differ"}

\* SympySolver.verify: the VerificationResult of each return statement
sympy_verify(outcome) ==
    CASE outcome = "problem_not_parsed"    -> [is_correct |-> FALSE, confidence |-> 0]
      [] outcome = "expected_not_computed" -> [is_correct |-> FALSE, confidence |-> 30]
      [] outcome = "solution_not_parsed"   -> [is_correct |-> FALSE, confidence |-> 50]
      [] outcome = "match"                 -> [is_correct |-> TRUE, confidence |-> 95]
      [] outcome = "differ"                -> [is_correct |-> FALSE, confidence |-> 90]
      [] outcome = "exception"             -> [is_correct |-> FALSE, confidence |-> 10]

\* a request arrives: where SympySolver.verify will return, and what GPT
\* will answer
InitAnalytic ==
    /\ sympy_outcome \in SympyOutcomes
    /\ sympy_result = sympy_verify(sympy_outcome)
    /\ gpt_json \in [is_correct : BOOLEAN, confidence : GptConfidences]
    /\ challenger_evaluation \in BOOLEAN
    /\ response = NoResponse

\* a request arrives: what the solvers will answer for it
InitApi ==
    /\ sympy_outcome = "unknown"
    /\ sympy_result \in [is_correct : BOOLEAN, confidence : SympyConfidences]
    /\ gpt_json \in [is_correct : BOOLEAN, confidence : GptConfidences]
    /\ challenger_evaluation \in BOOLEAN
    /\ response = NoResponse

\* POST /verify
VerifySolution ==
    /\ response' = verify_solution(sympy_result, gpt_verify(gpt_json))
    /\ UNCHANGED <<sympy_outcome, sympy_result, gpt_json, challenger_evaluation,
                   notApiVars>>

\* POST /challenge
ProcessChallenge ==
    /\ response' = process_challenge(sympy_result, gpt_verify(gpt_json),
                                     challenger_evaluation)
    /\ UNCHANGED <<sympy_outcome, sympy_result, gpt_json, challenger_evaluation,
                   notApiVars>>

InitApiSpec ==
    /\ InitIdx
    /\ ledger = <<>>
    /\ InitListenerIdle
    /\ InitBot
    /\ InitOracle
    /\ InitAuxIdle
    /\ InitCtlIdle
    /\ InitApi
    /\ InitSdkIdle

InitAnalyticSpec ==
    /\ InitIdx
    /\ ledger = <<>>
    /\ InitListenerIdle
    /\ InitBot
    /\ InitOracle
    /\ InitAuxIdle
    /\ InitCtlIdle
    /\ InitAnalytic
    /\ InitSdkIdle

NextApi == VerifySolution \/ ProcessChallenge

-----------------------------------------------------------------------------
(* OminisSDK.compute_commit_hash (src/sdk/ominis_sdk.py)                   *)
(* Strings and salts are sequences of bytes; a salt has SaltLen bytes,     *)
(* which stands for the 32 bytes of os.urandom(32).                        *)

\* the bytes solutions and salts are made of
Bytes == {"a", "b"}

\* the longest solution string
MaxSolutionLen == 2

\* the length of a salt
SaltLen == 2

Solutions == UNION {[1..n -> Bytes] : n \in 0..MaxSolutionLen}
Salts == [1..SaltLen -> Bytes]

\* the packed encoding of ['string', 'bytes32']: the bytes of the string,
\* then the 32 bytes
abi_encode_packed(solution, salt) == solution \o salt

\* keccak-256, taken as free of collisions: the digest names its input
keccak(bytes) == <<"keccak", bytes>>

\* a commitment that leaves the salt out of the digest
compute_commit_hash_unsalted(solution, salt) == keccak(solution)

\* Web3.solidity_keccak(['string', 'bytes32'], [solution, salt])
compute_commit_hash(solution, salt) == keccak(abi_encode_packed(solution, salt))

\* the ledger's check of a reveal against the commitment it holds
verify_commit(hash, solution, salt) == hash = compute_commit_hash(solution, salt)

\* a solution and a salt to commit to
InitHash ==
    /\ commit_args \in [solution : Solutions, salt : Salts]
    /\ commit_hash = <<>>
    /\ verified = <<>>
    /\ gpt_content = <<>>
    /\ parsed = <<>>

\* commit_solution: commit_hash = self.compute_commit_hash(solution, salt)
ComputeCommitHash ==
    /\ commit_hash' = compute_commit_hash(commit_args.solution, commit_args.salt)
    /\ UNCHANGED <<commit_args, verified, gpt_content, parsed, notSdkVars>>

\* a reveal of some solution and salt is checked against the commitment
VerifyCommit ==
    /\ commit_hash # <<>>
    /\ \E solution \in Solutions, salt \in Salts :
         verified' = <<[solution |-> solution, salt |-> salt,
                        ok |-> verify_commit(commit_hash, solution, salt)]>>
    /\ UNCHANGED <<commit_args, commit_hash, gpt_content, parsed, notSdkVars>>

-----------------------------------------------------------------------------
(* parse_gpt_solution (src/sdk/bot_server.py)                              *)
(* A content is the sequence of its lines, content.split('\n'); a text of  *)
(* several lines is a sequence of lines too, and "" is the one-line text   *)
(* <<"">>.                                                                 *)

\* the most lines of a content
MaxLines == 3

\* the lines a content is made of
Lines == {"", "x", "y", "ANSWER: x", "answer: x", "ANSWER:", "STEPS:", "1. x", "3. y"}

Contents == UNION {[1..n -> Lines] : n \in 1..MaxLines}

\* 'ANSWER:' under re.IGNORECASE
has_answer_marker(line) == line \in {"ANSWER: x", "answer: x", "ANSWER:"}

\* what follows the marker on its line, without the white space around it
after_marker(line) == IF line = "ANSWER:" THEN "" ELSE "x"

\* 'STEPS:' under re.IGNORECASE
is_steps_header(line) == line = "STEPS:"

\* ^\d+\.\s*(.+)
is_numbered(line) == line \in {"1. x", "3. y"}
numbered_text(line) == IF line = "1. x" THEN "x" ELSE "y"

NonBlank(text) == {i \in 1..Len(text) : text[i] # ""}
First(S) == CHOOSE i \in S : \A j \in S : i <= j
Last(S) == CHOOSE i \in S : \A j \in S : j <= i

\* str.strip() of a text of several lines
strip(text) ==
    IF NonBlank(text) = {} THEN <<"">>
    ELSE SubSeq(text, First(NonBlank(text)), Last(NonBlank(text)))

\* where r'ANSWER:\s*(.+?)(?:\n|$)' matches: a marker with a character that
\* is no line break after the white space that follows it
answer_matches(content) ==
    {i \in 1..Len(content) :
        /\ has_answer_marker(content[i])
        /\ \/ after_marker(content[i]) # ""
           \/ \E j \in NonBlank(content) : j > i}

\* group(1) of the first match: the rest of the marker's line, or the first
\* line with text after it
answer_group(content) ==
    LET i == First(answer_matches(content))
    IN  IF after_marker(content[i]) # "" THEN <<after_marker(content[i])>>
        ELSE <<content[First({j \in NonBlank(content) : j > i})]>>

\* lines[-1] if lines else content
last_line_or_content(content) ==
    IF NonBlank(content) = {} THEN content
    ELSE <<content[Last(NonBlank(content))]>>

\* the answer of parse_gpt_solution
parse_answer(content) ==
    IF answer_matches(content) # {} THEN strip(answer_group(content))
    ELSE last_line_or_content(content)

\* where r'STEPS:\s*\n' matches: a header that is not the last line
steps_matches(content) ==
    {i \in 1..Len(content) : is_steps_header(content[i]) /\ i < Len(content)}

\* ([\s\S]*?)(?:ANSWER:|$): the lines after the first header, up to the next
\* marker or the end
steps_text(content) ==
    LET h == First(steps_matches(content))
        markers == {j \in (h + 1)..Len(content) : has_answer_marker(content[j])}
        end == IF markers = {} THEN Len(content) ELSE First(markers) - 1
    IN  SubSeq(content, h + 1, end)

\* re.findall(r'^\d+\.\s*(.+)', steps_text, re.MULTILINE)
step_lines(text) == SelectSeq(text, is_numbered)

\* the steps of parse_gpt_solution: enumerate(step_lines), step = i + 1
parse_steps(content) ==
    IF steps_matches(content) = {} THEN <<>>
    ELSE LET found == step_lines(steps_text(content))
         IN  [i \in 1..Len(found) |->
                 [step |-> i, content |-> numbered_text(found[i]), result |-> ""]]

parse_gpt_solution(content) ==
    [answer |-> parse_answer(content), steps |-> parse_steps(content)]

\* the answer of the copy of parse_gpt_solution in the test suite:
\* r'ANSWER:\s*([\s\S]*)', everything after the first marker
parse_answer_test_copy(content) ==
    LET markers == {i \in 1..Len(content) : has_answer_marker(content[i])}
    IN  IF markers # {}
        THEN LET i == First(markers)
             IN  strip(<<after_marker(content[i])>> \o SubSeq(content, i + 1, Len(content)))
        ELSE last_line_or_content(content)

\* a content to parse
InitParse ==
    /\ commit_args = [solution |-> <<>>, salt |-> <<>>]
    /\ commit_hash = <<>>
    /\ verified = <<>>
    /\ gpt_content \in Contents
    /\ parsed = <<>>

\* solve_with_gpt: result = parse_gpt_solution(content)
ParseGptSolution ==
    /\ parsed' = <<parse_gpt_solution(gpt_content)>>
    /\ UNCHANGED <<commit_args, commit_hash, verified, gpt_content, notSdkVars>>

InitParseSpec ==
    /\ InitIdx
    /\ ledger = <<>>
    /\ InitListenerIdle
    /\ InitBot
    /\ InitOracle
    /\ InitAuxIdle
    /\ InitCtlIdle
    /\ InitApiIdle
    /\ InitParse

NextParse == ParseGptSolution

InitHashSpec ==
    /\ InitIdx
    /\ ledger = <<>>
    /\ InitListenerIdle
    /\ InitBot
    /\ InitOracle
    /\ InitAuxIdle
    /\ InitCtlIdle
    /\ InitApiIdle
    /\ InitHash

NextHash == ComputeCommitHash \/ VerifyCommit

vars == <<idxVars, lsnVars, botVars, orcVars, apiVars, sdkVars, ntfVars, auxVars, ctlVars>>

SpecStore == InitStore /\ [][NextStore]_vars

SpecRedeliver == InitStore /\ [][NextRedeliver]_vars

SpecResolve == InitResolve /\ [][NextSync]_vars

SpecNotify == InitNotify /\ [][NextSync]_vars

SpecSync == InitSync /\ [][NextSync]_vars

SpecBot == InitBotSpec /\ [][NextBot]_vars

SpecDeadline == InitBotSpec /\ [][NextDeadline]_vars

SpecOracle == InitOracleSpec /\ [][NextOracle]_vars

SpecParse == InitParseSpec /\ [][NextParse]_vars

SpecHash == InitHashSpec /\ [][NextHash]_vars

SpecAnalytic == InitAnalyticSpec /\ [][NextApi]_vars

SpecApi == InitApiSpec /\ [][NextApi]_vars

-----------------------------------------------------------------------------
(* Claims about the order store and the synchronizer *)

\* the lifecycle graph: OPEN -> ACCEPTED -> COMMITTED -> REVEALED ->
\* {VERIFIED, CHALLENGED}, CHALLENGED -> VERIFIED (REJECTED has no status
\* code), OPEN/ACCEPTED -> {EXPIRED, CANCELLED}
LegalTransition(a, b) ==
    \/ a = OPEN /\ b \in {ACCEPTED, EXPIRED, CANCELLED}
    \/ a = ACCEPTED /\ b \in {COMMITTED, EXPIRED, CANCELLED}
    \/ a = COMMITTED /\ b = REVEALED
    \/ a = REVEALED /\ b \in {VERIFIED, CHALLENGED}
    \/ a = CHALLENGED /\ b = VERIFIED

\* C2: a stored order's status changes only along the lifecycle graph; an
\* event that implies any other transition leaves the stored order unchanged.
C2_TransitionLegality ==
    [][\A o \in DOMAIN db.orders :
          \/ db'.orders[o] = db.orders[o]
          \/ LegalTransition(db.orders[o].status, db'.orders[o].status)]_vars

\* C3: delivering the event that was delivered last once more leaves the
\* Order, Solution and Challenge tables as they are.
C3_IdempotentReplay == [][lastEv' = lastEv => db' = db]_vars

\* C3 witness: an event was applied twice in succession to a store that
\* holds an order, a solution and a challenge.
C3_Witness ==
    /\ dup
    /\ db.orders # <<>> /\ db.solutions # <<>> /\ db.challenges # <<>>

\* C7: once every ledger event has been delivered (in any order, any number
\* of times), the store is the one reached by applying each event once in
\* ledger order.
C7_ConvergesToLedgerOrder ==
    delivered = 1..Len(ledger) => db = InOrder(ledger, Len(ledger))

AppliedSet == {applied[k] : k \in 1..Len(applied)}

\* C4: once a range was processed, every ledger event between the start
\* height and the checkpoint has been applied to the store.
C4_CheckpointCoversApplied ==
    ranges # <<>> =>
        \A i \in 1..Len(ledger) :
            (/\ start_block <= ledger[i]
             /\ ledger[i] <= last_processed_block) => i \in AppliedSet

\* C8: no event of a later block is applied before an event of an earlier block.
C8_AppliedInLedgerOrder ==
    \A j, k \in 1..Len(applied) :
        j < k => ledger[applied[j]] <= ledger[applied[k]]

\* the ranges rs are contiguous, increasing, disjoint and cover exactly [s, h]
Partitions(rs, s, h) ==
    /\ rs # <<>>
    /\ rs[1][1] = s
    /\ rs[Len(rs)][2] = h
    /\ \A k \in 1..Len(rs) : rs[k][1] <= rs[k][2]
    /\ \A k \in 1..(Len(rs) - 1) : rs[k + 1][1] = rs[k][2] + 1

\* C9: a catch-up over a span of more than one block that completes without
\* cancellation has processed ranges that partition [s, h], leaves the
\* checkpoint at h, and takes three chunks for a span of 2,500 blocks.
C9_CatchUpPartition ==
    (lpc = "sync_done" /\ ~sync_cancelled /\ start_block < current_block) =>
        /\ last_processed_block = current_block
        /\ Partitions(ranges, start_block, current_block)
        /\ (current_block - start_block + 1 = 2500 => Len(ranges) = 3)


\* C21: a challenge row exists only for an order whose row exists with status
\* REVEALED or later (REVEALED, VERIFIED, CHALLENGED).
C21_ChallengeOnlyOnceRevealed ==
    \A o \in DOMAIN db.challenges :
        /\ HasRow(db.orders, o)
        /\ db.orders[o].status \in {REVEALED, VERIFIED, CHALLENGED}

\* C22: the solution text of a solution row is set exactly when the row is
\* flagged as revealed.
C22_SolutionTextIffRevealed ==
    \A o \in DOMAIN db.solutions :
        (db.solutions[o].solution # None) <=> db.solutions[o].is_revealed

\* C22 witness: SolutionRevealed of order 1 was delivered twice in succession
\* onto the row its SolutionCommitted had written.
C22_Witness ==
    /\ dup /\ lastEv = 5
    /\ 4 \in delivered
    /\ HasRow(db.solutions, 1)
    /\ db.solutions[1].is_revealed
    /\ db.solutions[1].solution = "answer"

\* the listener's checkpoint is past the block of the ChallengeResolved event
\* of order 1, and no event a handler exists for was lost up to the checkpoint
ResolutionProcessed ==
    /\ ranges # <<>>
    /\ \E i \in 1..Len(ledger) :
           /\ EventAt(ledger, i).kind = "ChallengeResolved"
           /\ EventAt(ledger, i).orderId = 1
           /\ start_block <= ledger[i] /\ ledger[i] <= last_processed_block
    /\ \A i \in 1..Len(ledger) :
           (/\ EventAt(ledger, i).kind \in {Kinds[k] : k \in 1..Len(Kinds)}
            /\ start_block <= ledger[i] /\ ledger[i] <= last_processed_block)
           => i \in AppliedSet

\* the mirror holds the resolution of the challenge on order 1
ResolvedInStore ==
    /\ HasRow(db.challenges, 1)
    /\ db.challenges[1].resolved
    /\ db.challenges[1].challenger_won
    /\ HasRow(db.orders, 1)
    /\ db.orders[1].status # CHALLENGED

\* C23: once the listener has processed the block range that holds the
\* ChallengeResolved event of order 1 (ranges it does not read again), the
\* store holds the challenge as resolved with the event's challengerWon and
\* the order with a status other than CHALLENGED.
C23_ResolutionReachesStore == ResolutionProcessed => ResolvedInStore

\* no challenge row is ever written as resolved
NoChallengeResolved ==
    \A o \in DOMAIN db.challenges : ~db.challenges[o].resolved

\* the fields of an order row and of a solution row that are written once
ImmutableOfOrder(r) ==
    <<r.issuer, r.problem_hash, r.problem_type, r.time_tier, r.reward,
      r.created_at, r.deadline>>
ImmutableOfSolution(r) == <<r.solver, r.commit_hash, r.commit_time>>

\* C20: no delivery, of a repeated or stale ProblemPosted or SolutionCommitted
\* or of any other event, changes the issuer, problem hash, problem type, time
\* tier, reward, createdAt or deadline of an order the store holds, or the
\* solver, commitHash or commitTime of a solution it holds.
C20_ImmutableFieldsKept ==
    [][/\ \A o \in DOMAIN db.orders :
              /\ o \in DOMAIN db'.orders
              /\ ImmutableOfOrder(db'.orders[o]) = ImmutableOfOrder(db.orders[o])
       /\ \A o \in DOMAIN db.solutions :
              /\ o \in DOMAIN db'.solutions
              /\ ImmutableOfSolution(db'.solutions[o]) =
                     ImmutableOfSolution(db.solutions[o])]_vars

\* C20 witness: the ledger's ProblemPosted and SolutionCommitted of order 1
\* were delivered onto rows that their stale forms had written, and the rows
\* keep the stale issuer and commit hash.
C20_Witness ==
    /\ {1, 4} \subseteq delivered
    /\ HasRow(db.orders, 1) /\ HasRow(db.solutions, 1)
    /\ db.orders[1].issuer = "issuer0"
    /\ db.solutions[1].commit_hash = <<"hex", "hash0">>

-----------------------------------------------------------------------------
(* Solver bot                                                              *)

\* the contexts of bot_server.py that the in-flight registry is to keep apart
RegistryContexts == {"bot_loop", "auto_solver", "webhook"}

InSequence(t, o) == th[t].pc # "idle" /\ th[t].order = o

\* C1: at any time at most one of bot_loop, AutoSolver.run_once and the
\* webhook handler is inside a commit-reveal sequence for a given order id.
C1_AtMostOneActiveSequence ==
    \A o \in Orders :
        Cardinality({t \in RegistryContexts : InSequence(t, o)}) <= 1

\* C5: a reveal is submitted only after a successful commit receipt, or after
\* a poll within the context's budget read COMMITTED; a context whose budget
\* ended without COMMITTED is neither polling on nor about to reveal.
C5_RevealOnlyAfterCommitConfirmed ==
    /\ \A r \in reveals : r.confirmed # "none"
    /\ \A t \in Threads :
           /\ th[t].pc = "reveal" => Confirmed(t) # "none"
           /\ th[t].pc = "poll" => ~th[t].receipt /\ th[t].polls < Budget(t)

\* C5 witness: a reveal was submitted after an unsuccessful receipt and a
\* poll that read COMMITTED, and a context with a poll budget has ended an
\* attempt on an unconfirmed commit without revealing.
C5_Witness ==
    /\ \E r \in reveals : r.confirmed = "poll"
    /\ gave_up \cap RegistryContexts # {}

SaltHeld(s) == \E t \in Threads : th[t].pc # "idle" /\ th[t].salt = s

\* C10: while an order is COMMITTED on the ledger through a commit of this
\* bot whose reveal has not been submitted, some context still holds the
\* salt of that commit.
C10_SaltRetainedUntilReveal ==
    \A o \in Orders :
        (/\ ostatus[o] = COMMITTED
         /\ ocommit[o] # 0
         /\ ocommit[o] \notin reveal_submitted) => SaltHeld(ocommit[o])


\* the step in which context t sends its reveal transaction
RevealSent(t) ==
    /\ th[t].pc = "reveal"
    /\ th'[t].pc = "idle"
    /\ reveal_submitted' # reveal_submitted

\* C11: whenever a context sends a reveal transaction for an order, the
\* order's solver on the ledger is this bot.
C11_RevealOnlyAsSolver ==
    [][\A t \in Threads : RevealSent(t) => osolver[th[t].order] = "bot"]_vars

\* C12: whenever a context sends a reveal transaction for an order, the time
\* left before the order's deadline exceeds the minimum safety margin.
C12_RevealOnlyWithTimeLeft ==
    [][\A t \in Threads :
           RevealSent(t) => time_left[th[t].order] > min_time_margin]_vars

SaltsInUse ==
    {th[t].salt : t \in Threads} \cup reveal_submitted
        \cup {ocommit[o] : o \in Orders} \cup {p[2] : p \in pending}

-----------------------------------------------------------------------------
(* Oracles                                                                 *)

\* C6: an oracle process sends at most one verification transaction for a
\* given order id, whichever of its loops took the order and however many
\* polling cycles saw it.
C6_VerificationSubmittedOnce ==
    \A p \in Oracles : \A o \in Orders : submitted[p][o] <= 1

\* C16: an order id enters the processed set of an oracle only in a step
\* after which the ledger holds the order's verification as processed: the
\* oracle's own submission succeeded, or the ledger had it processed already.
\* A failed, reverted or timed-out submission leaves the id out.
C16_ProcessedOnlyAfterSuccess ==
    [][\A o \in Orders :
           (\/ o \in node_processed' \ node_processed
            \/ o \in service_processed' \ service_processed)
           => o \in is_processed']_vars

\* C17: a failure while an oracle processes one order (no request fetched,
\* no verification, a submission that failed) takes only that order off the
\* cycle: the other orders of the cycle's list stay to be processed, and the
\* loops of the node keep running with the other coroutine where it was.
C17_FailureIsolatedPerOrder ==
    [][/\ \A o \in Orders :
              o \in service_failed' \ service_failed =>
                  service_pending' = service_pending \ {o}
       /\ \A c \in Coroutines :
              (co[c].pc = "post" /\ co'[c].pc = "idle"
                  /\ co[c].order \notin node_processed') =>
                  /\ node_running' = node_running
                  /\ \A d \in Coroutines \ {c} : co'[d] = co[d]]_vars

\* C17 witness: order 1 has failed in this cycle of OracleService.run and
\* order 2 of the same list is still to be processed.
C17_Witness ==
    /\ service_failed = {1}
    /\ service_pending = {2}
    /\ 2 \notin service_processed

\* C19: once the stop signal of the oracles is raised (OracleNode.stop, the
\* only one their code has), no loop of an oracle begins another cycle: the
\* coroutines of the node take no further order and OracleService.run fetches
\* no further list of pending verifications.
C19_LoopsObserveStop ==
    [][~node_running =>
           /\ \A c \in Coroutines : co[c].pc = "idle" => co'[c].pc = "idle"
           /\ ~(service_pending = {} /\ service_pending' # {})]_vars

-----------------------------------------------------------------------------
(* Verifier API                                                            *)

\* C13: the response of /verify is the SymPy judgment verbatim when its
\* confidence is at least 0.9; otherwise, with both confidences positive, the
\* agreed verdict with confidence min(1, (cA + cH) / 1.5), or on disagreement
\* the verdict of the more confident solver with 0.8 of its confidence and a
\* method tagged as disputed.
C13_VerificationMerge ==
    response.endpoint = "verify" =>
        LET a == sympy_result
            h == gpt_verify(gpt_json)
            both == a.confidence > 0 /\ h.confidence > 0
            agree == a.is_correct = h.is_correct
        IN  /\ a.confidence >= 90 =>
                   /\ response.is_correct = a.is_correct
                   /\ response.confidence * 100 = a.confidence * One
                   /\ response.method = "sympy"
            /\ a.confidence < 90 /\ both /\ agree =>
                   /\ response.is_correct = a.is_correct
                   /\ \/ /\ 2 * (a.confidence + h.confidence) <= 300
                         /\ 300 * response.confidence =
                                2 * (a.confidence + h.confidence) * One
                      \/ /\ 2 * (a.confidence + h.confidence) > 300
                         /\ response.confidence = One
                   /\ response.method = "sympy+gpt"
            /\ a.confidence < 90 /\ both /\ ~agree =>
                   /\ response.method \in {"sympy (disputed)", "gpt (disputed)"}
                   /\ a.confidence > h.confidence =>
                          /\ response.is_correct = a.is_correct
                          /\ 1000 * response.confidence = 8 * a.confidence * One
                          /\ response.method = "sympy (disputed)"
                   /\ h.confidence > a.confidence =>
                          /\ response.is_correct = h.is_correct
                          /\ 1000 * response.confidence = 8 * h.confidence * One
                          /\ response.method = "gpt (disputed)"

\* C13 witness: /verify answered for a SymPy judgment of confidence exactly
\* 0.8 against which a less confident GPT disagrees.
C13_Witness ==
    /\ response.endpoint = "verify"
    /\ response.method = "sympy (disputed)"
    /\ sympy_result.confidence = 80
    /\ gpt_verify(gpt_json).confidence = 60
    /\ sympy_result.is_correct # gpt_json.is_correct

\* C14: the response of /challenge is the outcome and the confidence of the
\* first row of the decision table that matches.
C14_ChallengeDecisionTable ==
    response.endpoint = "challenge" =>
        LET a == sympy_result
            h == gpt_verify(gpt_json)
            strong == a.confidence > 80 /\ h.confidence > 80
            row1 == strong /\ ~a.is_correct /\ ~h.is_correct
            row2 == strong /\ a.is_correct /\ h.is_correct
            row3 == a.confidence > 90
            row4 == h.confidence > 90
            row5 == challenger_evaluation
            wins(w, hundredths, factor) ==
                /\ response.challenger_wins = w
                /\ response.confidence * 10000 = hundredths * factor * One
        IN  /\ row1 => wins(TRUE, 95, 100)
            /\ ~row1 /\ row2 => wins(FALSE, 95, 100)
            /\ ~row1 /\ ~row2 /\ row3 => wins(~a.is_correct, a.confidence, 90)
            /\ ~row1 /\ ~row2 /\ ~row3 /\ row4 =>
                   wins(~h.is_correct, h.confidence, 85)
            /\ ~row1 /\ ~row2 /\ ~row3 /\ ~row4 /\ row5 => wins(TRUE, 70, 100)
            /\ ~row1 /\ ~row2 /\ ~row3 /\ ~row4 /\ ~row5 => wins(FALSE, 60, 100)

\* C14 witness: /challenge answered when SymPy and GPT are both above 0.9 and
\* disagree, so that the third row decides before the fourth.
C14_Witness ==
    /\ response.endpoint = "challenge"
    /\ sympy_result.confidence = 95
    /\ gpt_verify(gpt_json).confidence = 100
    /\ sympy_result.is_correct /\ ~gpt_json.is_correct
    /\ ~response.challenger_wins

\* C15: the confidence of every response of /verify and /challenge lies
\* within [0, 1].
C15_ConfidenceWithinUnitInterval ==
    response.endpoint # "none" =>
        0 <= response.confidence /\ response.confidence <= One

\* C15 witness: /verify answered for agreeing judgments whose confidences add
\* up to more than 1.5, one of them a GPT confidence given above 1.
C15_Witness ==
    /\ response.endpoint = "verify"
    /\ response.method = "sympy+gpt"
    /\ gpt_json.confidence > 100
    /\ 2 * (sympy_result.confidence + gpt_verify(gpt_json).confidence) > 300
    /\ response.confidence = One

-----------------------------------------------------------------------------
(* SDK                                                                     *)

C25_WitnessSamePair ==
    /\ verified # <<>>
    /\ verified[1].solution = commit_args.solution
    /\ verified[1].salt = commit_args.salt
    /\ verified[1].ok

\* C26: the answer of parse_gpt_solution is all the text after the first
\* 'ANSWER:' marker up to the end of the content, trimmed; without a marker
\* it is the last line that is not blank, and for the empty content the empty
\* string; the steps are the numbered lines of the STEPS section, 1..n.
C26_AnswerIsAllTextAfterMarker ==
    parsed # <<>> =>
        /\ parsed[1].answer = parse_answer_test_copy(gpt_content)
        /\ gpt_content = <<"">> => parsed[1].answer = <<"">>
        /\ parsed[1].steps = parse_steps(gpt_content)
        /\ \A i \in 1..Len(parsed[1].steps) : parsed[1].steps[i].step = i

\* the parts of C26 that do not depend on how far the answer extends
AnswerWithoutMarker ==
    (parsed # <<>> /\ \A i \in 1..Len(gpt_content) : ~has_answer_marker(gpt_content[i])) =>
        /\ parsed[1].answer = last_line_or_content(gpt_content)
        /\ \A i \in 1..Len(parsed[1].steps) : parsed[1].steps[i].step = i

\* C27: while a context that registers its orders is inside a sequence for
\* an order, the order is in the in-flight registry (a release by another
\* context does not remove it), and every order in the registry has a
\* sequence that is active on it.
C27_RegistryCoversActiveSequences ==
    /\ \A t \in Threads : \A o \in Orders :
           (Registers(t) /\ InSequence(t, o)) => o \in active_orders
    /\ \A o \in active_orders : \E t \in Threads : Registers(t) /\ InSequence(t, o)

\* the second half of C27: no order stays in the registry without a sequence
RegistryOnlyActiveSequences ==
    \A o \in active_orders : \E t \in Threads : Registers(t) /\ InSequence(t, o)

-----------------------------------------------------------------------------
(* Event listener: the heights it processes                                *)

\* the ranges handed to _process_block_range so far cover the heights from
\* the start height to the checkpoint, each once and in increasing order
RangesCoverFromStart(rs, from, upto) ==
    rs # <<>> =>
        /\ rs[1][1] = from
        /\ \A i \in 1..Len(rs) : rs[i][1] <= rs[i][2]
        /\ \A i \in 1..(Len(rs) - 1) : rs[i + 1][1] = rs[i][2] + 1
        /\ rs[Len(rs)][2] = upto

\* the hand-over: when tailing begins after a catch-up that was not cut
\* short and that found the start height on the chain, the heights from the
\* start height to the checkpoint were processed
HandOverSkipsNothing ==
    (lpc = "sync_done" /\ lpc' = "tail" /\ ~sync_cancelled
                       /\ start_block <= current_block) =>
        /\ ranges # <<>>
        /\ RangesCoverFromStart(ranges, start_block, last_processed_block)

\* C28: every height from the start height to the checkpoint is processed
\* exactly once and in increasing order; a tail cycle processes exactly
\* [checkpoint+1, head] and then sets the checkpoint to head; the hand-over
\* from catch-up to tail skips no height; the checkpoint never decreases.
C28_EveryHeightOnceInOrder ==
    [][/\ last_processed_block' >= last_processed_block
       /\ (lpc = "tail" /\ ranges' # ranges) =>
              /\ ranges' = Append(ranges, <<last_processed_block + 1, head>>)
              /\ last_processed_block' = head
       /\ HandOverSkipsNothing
       /\ RangesCoverFromStart(ranges', start_block, last_processed_block')]_vars

\* the parts of C28 about one tail cycle and about the checkpoint
TailCycleExactAndMonotone ==
    [][/\ last_processed_block' >= last_processed_block
       /\ (lpc = "tail" /\ ranges' # ranges) =>
              /\ ranges' = Append(ranges, <<last_processed_block + 1, head>>)
              /\ last_processed_block' = head
       /\ \A i \in 1..Len(ranges') : ranges'[i][1] <= ranges'[i][2]
       /\ \A i \in 1..(Len(ranges') - 1) : ranges'[i + 1][1] = ranges'[i][2] + 1
       /\ ranges' # <<>> => ranges'[Len(ranges')][2] = last_processed_block']_vars

-----------------------------------------------------------------------------
(* Event listener: the notification callback                               *)

\* the store after the handlers of the given events ran in order
RECURSIVE StoreAfter(_, _)
StoreAfter(d, evs) ==
    IF evs = <<>> THEN d
    ELSE StoreAfter(handle_event(d, EventAt(ledger, Head(evs)), FALSE).db, Tail(evs))

NotifiedSet == {notified[k] : k \in 1..Len(notified)}

\* the events of a fetched kind that the ranges processed so far hold together
\* with event i
SameRange(i) ==
    {j \in 1..Len(ledger) :
        /\ \E k \in 1..Len(Kinds) : EventAt(ledger, j).kind = Kinds[k]
        /\ \E r \in 1..Len(ranges) :
             /\ ranges[r][1] <= ledger[i] /\ ledger[i] <= ranges[r][2]
             /\ ranges[r][1] <= ledger[j] /\ ledger[j] <= ranges[r][2]}

\* C29: a notification callback that raises after an event was applied
\* leaves the event's mutation in the store, the other events of the range
\* are handled all the same and the checkpoint advances to the end of the
\* range; a notification is made only for an event whose handler completed.
C29_CallbackFailureIsContained ==
    /\ db = StoreAfter(EmptyDb, applied)
    /\ callback_failed \subseteq AppliedSet
    /\ NotifiedSet \subseteq AppliedSet
    /\ NotifiedSet \cap handler_failed = {}
    /\ \A i \in callback_failed :
         /\ SameRange(i) \subseteq (AppliedSet \cup handler_failed)
         /\ last_processed_block >= ledger[i]

\* C29 witness: the callback raised for the first event of a range that held
\* a later event too, and the later event is in the store with the first
C29_Witness ==
    /\ callback_failed = {1}
    /\ 2 \in SameRange(1)
    /\ 2 \in AppliedSet
    /\ HasRow(db.orders, 1) /\ HasRow(db.orders, 2)
    /\ last_processed_block >= ledger[2]

-----------------------------------------------------------------------------
(* Verifier API: one solver failing                                        *)

\* C30: when one of the two solvers gives a judgment with confidence above 0
\* and the other fails with confidence 0, the response of /verify carries
\* the verdict and the confidence of the one that did not fail.
C30_UsableVerifierCarries ==
    response.endpoint = "verify" =>
        LET a == sympy_result
            h == gpt_verify(gpt_json)
        IN  /\ (a.confidence > 0 /\ h.confidence = 0) =>
                   /\ response.is_correct = a.is_correct
                   /\ response.confidence = Pts(a.confidence)
            /\ (a.confidence = 0 /\ h.confidence > 0) =>
                   /\ response.is_correct = h.is_correct
                   /\ response.confidence = Pts(h.confidence)

\* the half of C30 in which SymPy is the solver that failed
GptCarriesWhenSympyFailed ==
    response.endpoint = "verify" =>
        LET a == sympy_result
            h == gpt_verify(gpt_json)
        IN  (a.confidence = 0 /\ h.confidence > 0) =>
                /\ response.is_correct = h.is_correct
                /\ response.confidence = Pts(h.confidence)
                /\ response.method = "gpt"

\* C31: when SympySolver.verify fails (problem not parsed, expected solution
\* not computed, submitted solution not parsed, exception) its judgment has
\* confidence 0, and the response of /verify is made by neither the rule of
\* agreement nor the rules of disagreement.
C31_FailedAnalyticIsUnusable ==
    (response.endpoint = "verify" /\ sympy_outcome \in SympyFailures) =>
        /\ sympy_result.confidence = 0
        /\ response.method \notin {"sympy+gpt", "sympy (disputed)", "gpt (disputed)"}

\* the part of C31 that holds: a failure of SympySolver.verify is returned as
\* a judgment below the threshold of a response by SymPy alone
FailedAnalyticNeverAlone ==
    (response.endpoint = "verify" /\ sympy_outcome \in SympyFailures) =>
        response.method # "sympy"

\* C40: whenever /verify answers 'incorrect' by its rule for a confident
\* SymPy (incorrect with confidence at least 0.9), /challenge on the same two
\* judgments answers that the challenger wins, whatever GPT's judgment and
\* the evaluation of the challenge are.
C40_EnginesAgreeOnIncorrect ==
    LET v == verify_solution(sympy_result, gpt_verify(gpt_json))
    IN  (/\ response.endpoint = "challenge"
         /\ v.method = "sympy"
         /\ ~v.is_correct) => response.challenger_wins

-----------------------------------------------------------------------------
(* Oracles: requests the ledger has already processed                      *)

\* C33: neither oracle sends a verification transaction for an order whose
\* request the ledger reports as processed; it skips the order and enters it
\* in its processed set.
C33_NoVerdictForProcessedRequest ==
    [][\A o \in Orders :
          /\ (submitted'["node"][o] > submitted["node"][o]) => o \notin is_processed
          /\ (submitted'["service"][o] > submitted["service"][o]) =>
                 o \notin is_processed]_vars

\* the part of C33 that holds: OracleService reads the request's flag first,
\* skips a processed request and enters it in processed_orders
ServiceSkipsProcessedRequest ==
    [][\A o \in Orders :
          /\ (submitted'["service"][o] > submitted["service"][o]) =>
                 o \notin is_processed
          /\ (/\ o \in service_pending /\ o \notin service_pending'
              /\ o \in is_processed) => o \in service_processed']_vars

\* oracle p sends a verification transaction for order o in this step
Submits(p, o) == submitted'[p][o] > submitted[p][o]

\* C34: the outcome of a verification transaction is settled against the
\* ledger's state: the oracle does not take a submission for successful
\* unless the ledger holds the request as processed, and does not declare it
\* failed when a look at the ledger shows the request processed.
C34_OutcomeConfirmedOnLedger ==
    [][\A o \in Orders :
          /\ (Submits("node", o) /\ o \notin is_processed') => o \notin node_processed'
          /\ (Submits("service", o) /\ o \notin is_processed') =>
                 o \notin service_processed'
          /\ (Submits("service", o) /\ o \in service_failed') =>
                 o \notin is_processed']_vars

\* the part of C34 that holds: OracleService takes a submission for
\* successful only on a receipt with status 1
ServiceSuccessOnlyWhenSettled ==
    [][\A o \in Orders :
          (Submits("service", o) /\ o \notin is_processed') =>
              o \notin service_processed']_vars

-----------------------------------------------------------------------------
(* The verdict an oracle submits: OracleService merges its two verifiers   *)
(* in process, OracleNode submits what the verifier API answered            *)

\* what verify_with_sympy and verify_with_gpt return: True, False or None
Tri == {"True", "False", "None"}

\* verify_solution of oracle_service.py: the decision logic
service_verify_solution(sympy, gpt) ==
    IF sympy # "None" /\ gpt # "None"
    THEN IF sympy = gpt THEN sympy = "True"
         ELSE IF sympy = "True" THEN TRUE ELSE FALSE
    ELSE IF sympy # "None" THEN sympy = "True"
    ELSE IF gpt # "None" THEN gpt = "True"
    ELSE TRUE

\* the verifiers of both paths have run on some solution
InitVerdict ==
    /\ InitAnalytic
    /\ service_results \in [sympy : Tri, gpt : Tri]
    /\ verdict = NoVerdict
    /\ pending_list = <<>>
    /\ order_ids = <<>>
    /\ attempted = {}

\* OracleService.process_order: verify_solution, then submit_verification
ServiceSubmitVerdict ==
    /\ verdict' = [path |-> "service",
                   is_correct |-> service_verify_solution(service_results.sympy,
                                                          service_results.gpt)]
    /\ UNCHANGED <<service_results, pending_list, order_ids, attempted, idxVars,
                   lsnVars, botVars, orcVars, apiVars, sdkVars, ntfVars, ctlVars>>

\* OracleNode._process_verification: POST /api/verify, then
\* _submit_verification_result(is_correct = result["is_correct"])
NodeSubmitVerdict ==
    /\ response' = verify_solution(sympy_result, gpt_verify(gpt_json))
    /\ verdict' = [path |-> "node", is_correct |-> response'.is_correct]
    /\ UNCHANGED <<service_results, pending_list, order_ids, attempted,
                   sympy_outcome, sympy_result, gpt_json, challenger_evaluation,
                   idxVars, lsnVars, botVars, orcVars, sdkVars, ntfVars, ctlVars>>

InitVerdictSpec ==
    /\ InitIdx
    /\ ledger = <<>>
    /\ InitListenerIdle
    /\ InitBot
    /\ InitOracle
    /\ InitVerdict
    /\ InitCtlIdle
    /\ InitSdkIdle

NextVerdict == ServiceSubmitVerdict \/ NodeSubmitVerdict

SpecVerdict == InitVerdictSpec /\ [][NextVerdict]_vars

\* C32: when every verifier is inconclusive (None in the service, confidence
\* 0 in the verifier API), the verdict submitted on-chain is 'correct', on
\* the service's path and on the node's path alike.
C32_InconclusiveIsCorrectOnBothPaths ==
    /\ (verdict.path = "service" /\ service_results.sympy = "None"
            /\ service_results.gpt = "None") => verdict.is_correct
    /\ (verdict.path = "node" /\ sympy_result.confidence = 0
            /\ gpt_verify(gpt_json).confidence = 0) => verdict.is_correct

\* the service's half of C32: both verifiers None, verdict 'correct'
ServiceInconclusiveIsCorrect ==
    (verdict.path = "service" /\ service_results.sympy = "None"
        /\ service_results.gpt = "None") => verdict.is_correct

-----------------------------------------------------------------------------
(* OracleNode._poll_pending_verifications with the ledger's pending list   *)
(* as a list: every cycle reads the count and fetches one page from        *)
(* offset 0                                                                *)

\* getPendingVerifications(0, min(count, 10)): the size of the page
poll_page == 10

\* the most orders waiting for verification at once
MaxPending == 11

\* getPendingVerifications(offset, limit) of the ledger
getPendingVerifications(offset, limit) ==
    SubSeq(pending_list, offset + 1, Min(Len(pending_list), offset + limit))

\* the ledger takes a verified order off its pending list
RemovePending(o) == SelectSeq(pending_list, LAMBDA x : x # o)

\* orders 1..n wait for their verification, the node has just started
InitPoll ==
    /\ \E n \in 0..MaxPending : pending_list = [i \in 1..n |-> i]
    /\ order_ids = <<>>
    /\ attempted = {}
    /\ service_results = [sympy |-> "None", gpt |-> "None"]
    /\ verdict = NoVerdict

\* the top of the while loop: count, then the page; an exception of either
\* call is logged and the cycle is over
PollFetchPage ==
    /\ node_running
    /\ order_ids = <<>>
    /\ \E read_ok \in BOOLEAN :
         order_ids' = IF read_ok /\ Len(pending_list) > 0
                      THEN getPendingVerifications(0, Min(Len(pending_list), poll_page))
                      ELSE <<>>
    /\ UNCHANGED <<pending_list, attempted, service_results, verdict, idxVars,
                   lsnVars, botVars, orcVars, apiVars, sdkVars, ntfVars, ctlVars>>

\* what one _process_verification comes to: the verdict is mined with status
\* 1, it is mined with status 0, or the API call or the submission raises
PollOutcomes == {"mined", "reverted", "raises"}

\* for order_id in order_ids: if order_id not in self.processed_orders:
\* await self._process_verification(order_id)
PollProcessNext ==
    LET o == Head(order_ids)
    IN  /\ order_ids # <<>>
        /\ order_ids' = Tail(order_ids)
        /\ IF o \in node_processed
           THEN UNCHANGED <<pending_list, is_processed, node_processed, attempted>>
           ELSE \E tx \in PollOutcomes :
                  /\ attempted' = attempted \cup {o}
                  /\ pending_list' = IF tx = "mined" THEN RemovePending(o)
                                     ELSE pending_list
                  /\ is_processed' = IF tx = "mined" THEN is_processed \cup {o}
                                     ELSE is_processed
                  /\ node_processed' = IF tx = "raises" THEN node_processed
                                       ELSE node_processed \cup {o}
        /\ UNCHANGED <<pending_verifications, new_entries, node_running, co,
                       service_pending, service_processed, service_failed,
                       submitted, service_results, verdict, idxVars, lsnVars,
                       botVars, apiVars, sdkVars, ntfVars, ctlVars>>

InitPollSpec ==
    /\ InitIdx
    /\ ledger = <<>>
    /\ InitListenerIdle
    /\ InitBot
    /\ InitOracle
    /\ InitPoll
    /\ InitCtlIdle
    /\ InitApiIdle
    /\ InitSdkIdle

NextPoll == PollFetchPage \/ PollProcessNext

SpecPoll == InitPollSpec /\ [][NextPoll]_vars

\* the orders on the ledger's pending list
PendingOrders == {pending_list[i] : i \in 1..Len(pending_list)}

\* the orders of the page every cycle fetches
PageOrders ==
    {pending_list[i] : i \in 1..Min(Len(pending_list), poll_page)}

\* order o waits, the node has not processed it, and no cycle will reach it:
\* the loop is running, o is beyond the page, and the page, as the ledger
\* holds it and as the loop fetched it, holds only orders the loop skips
Starved(o) ==
    /\ node_running
    /\ \A i \in 1..Len(order_ids) : order_ids[i] \in node_processed
    /\ o \in PendingOrders \ PageOrders
    /\ o \notin node_processed
    /\ o \notin attempted
    /\ PageOrders \subseteq node_processed

\* C35: every order that stays on the ledger's pending list and is not yet
\* processed is attempted by the polling loop in some later cycle, however
\* many orders are pending: no order is left where no cycle reaches it.
C35_EveryPendingOrderIsReached == \A o \in 1..MaxPending : ~Starved(o)

\* an order that no cycle reaches stays so: all the loop does from there on
\* is fetch the same page and skip its orders
StarvedForever ==
    [][\A o \in 1..MaxPending : Starved(o) => Starved(o)']_vars

\* within the page, an attempt that raised leaves the order to a later cycle
RaisedAttemptIsRetried ==
    \A o \in PageOrders :
        (o \in attempted /\ o \notin node_processed /\ node_running) =>
            o \in PendingOrders /\ o \notin is_processed

-----------------------------------------------------------------------------
\* C36: in every state of the store, every order whose mirrored status is
\* REVEALED or CHALLENGED has a Solution row with is_revealed = true and a
\* solution text that is not null.
C36_RevealedOrderHasRevealedSolution ==
    \A o \in DOMAIN db.orders :
        db.orders[o].status \in {REVEALED, CHALLENGED} =>
            /\ HasRow(db.solutions, o)
            /\ db.solutions[o].is_revealed
            /\ db.solutions[o].solution # None

\* the part of C36 the handlers do keep: a Solution row marked revealed
\* carries a solution text
RevealedRowCarriesText ==
    \A o \in DOMAIN db.solutions :
        db.solutions[o].is_revealed => db.solutions[o].solution # None

-----------------------------------------------------------------------------
(* One block range and the events of one order                             *)

\* the status each handler writes for its kind of event
StatusWritten(kind) ==
    CASE kind = "ProblemPosted"      -> OPEN
      [] kind = "OrderAccepted"      -> ACCEPTED
      [] kind = "SolutionCommitted"  -> COMMITTED
      [] kind = "SolutionRevealed"   -> REVEALED
      [] kind = "ChallengeSubmitted" -> CHALLENGED

\* the events of order o that the range <<lo, hi>> holds, of the five kinds
\* _process_block_range fetches
EventsOfOrderIn(o, rg) ==
    {i \in 1..Len(ledger) :
        /\ EventAt(ledger, i).orderId = o
        /\ \E k \in 1..Len(Kinds) : EventAt(ledger, i).kind = Kinds[k]
        /\ rg[1] <= ledger[i] /\ ledger[i] <= rg[2]}

\* the events of order o in a sequence of events, in the sequence's order
OfOrder(evs, o) ==
    SelectSeq(evs, LAMBDA i : EventAt(ledger, i).orderId = o)

\* a sequence of ledger positions that only goes forward
GoesForward(evs) ==
    \A a, b \in 1..Len(evs) : a < b => evs[a] < evs[b]

\* C37: within one processed block range the events of any one order are
\* applied in lifecycle order, although the range's events are grouped by
\* kind, so that after the range the order's mirrored status is the status
\* its latest ledger event in that range implies.
C37_RangeLeavesLatestStatus ==
    [][ranges' # ranges =>
         \A o \in Orders :
            LET rg   == ranges'[Len(ranges')]
                mine == EventsOfOrderIn(o, rg)
                new  == SubSeq(applied', Len(applied) + 1, Len(applied'))
            IN  (mine # {} /\ HasRow(db'.orders, o)) =>
                    /\ GoesForward(OfOrder(new, o))
                    /\ db'.orders[o].status =
                           StatusWritten(EventAt(ledger, Last(mine)).kind)]_vars

\* the first half of C37: the events of one order that a range applies are
\* applied in the order the ledger holds them
RangeAppliedInLifecycleOrder ==
    [][ranges' # ranges =>
         \A o \in Orders :
            GoesForward(OfOrder(SubSeq(applied', Len(applied) + 1, Len(applied')), o))]_vars

\* the second half where every event of the range was handled: the status
\* mirrored is the one the order's latest event of the range implies
HandledRangeLeavesLatestStatus ==
    [][ranges' # ranges =>
         \A o \in Orders :
            LET rg   == ranges'[Len(ranges')]
                mine == EventsOfOrderIn(o, rg)
                new  == SubSeq(applied', Len(applied) + 1, Len(applied'))
            IN  (mine # {} /\ HasRow(db'.orders, o)
                    /\ mine \subseteq {new[j] : j \in 1..Len(new)}) =>
                    db'.orders[o].status =
                        StatusWritten(EventAt(ledger, Last(mine)).kind)]_vars

-----------------------------------------------------------------------------
(* POST /start, POST /stop and the bot_loop threads (src/sdk/bot_server.py) *)

\* POST /start: refused while bot_state.running; running = True,
\* stop_event.clear(), a new Thread(target=bot_loop) is started
StartBot ==
    /\ ~bot_running
    /\ \E t \in BotThreads :
         /\ bot_threads[t] = "unstarted"
         /\ \A u \in BotThreads : u < t => bot_threads[u] # "unstarted"
         /\ bot_threads' = [bot_threads EXCEPT ![t] = "init"]
    /\ bot_running' = TRUE
    /\ stop_event' = FALSE
    /\ UNCHANGED <<ostatus, osolver, ocommit, assigned, pending, active_orders,
                   processed_orders, th, nsalt, reveals, reveal_submitted,
                   gave_up, botAux, asked, callers, solve_started,
                   idxVars, lsnVars, orcVars, apiVars, sdkVars, ntfVars, auxVars>>

\* what a step of a bot_loop thread leaves alone
BotThreadFrame ==
    UNCHANGED <<ostatus, osolver, ocommit, assigned, pending, active_orders,
                processed_orders, stop_event, th, nsalt, reveals,
                reveal_submitted, gave_up, botAux, asked, callers, solve_started,
                idxVars, lsnVars, orcVars, apiVars, sdkVars, ntfVars, auxVars>>

\* bot_loop up to its main loop: without its environment variables or its
\* SDK the thread sets running = False and returns
BotLoopInit(t) ==
    /\ bot_threads[t] = "init"
    /\ \E sdk_ok \in BOOLEAN :
         IF sdk_ok
         THEN /\ bot_threads' = [bot_threads EXCEPT ![t] = "test"]
              /\ UNCHANGED bot_running
         ELSE /\ bot_threads' = [bot_threads EXCEPT ![t] = "exited"]
              /\ bot_running' = FALSE
    /\ BotThreadFrame

\* while not bot_state.stop_event.is_set(); after the loop running = False
BotLoopTest(t) ==
    /\ bot_threads[t] = "test"
    /\ IF stop_event
       THEN /\ bot_threads' = [bot_threads EXCEPT ![t] = "exited"]
            /\ bot_running' = FALSE
       ELSE /\ bot_threads' = [bot_threads EXCEPT ![t] = "iteration"]
            /\ UNCHANGED bot_running
    /\ BotThreadFrame

\* one iteration of the main loop, up to the return of
\* stop_event.wait(poll_interval)
BotLoopIteration(t) ==
    /\ bot_threads[t] = "iteration"
    /\ bot_threads' = [bot_threads EXCEPT ![t] = "test"]
    /\ UNCHANGED bot_running
    /\ BotThreadFrame

InitStartStopSpec ==
    /\ InitIdx
    /\ ledger = <<>>
    /\ InitListenerIdle
    /\ InitBot
    /\ InitOracle
    /\ InitAuxIdle
    /\ InitCtlIdle
    /\ InitApiIdle
    /\ InitSdkIdle

NextStartStop ==
    \/ StartBot
    \/ StopBot
    \/ \E t \in BotThreads : BotLoopInit(t)
    \/ \E t \in BotThreads : BotLoopTest(t)
    \/ \E t \in BotThreads : BotLoopIteration(t)

SpecStartStop == InitStartStopSpec /\ [][NextStartStop]_vars

\* C38: at most one bot_loop thread is running at any time, also when /stop
\* is followed by /start at once, and a thread that was asked to stop never
\* passes the test of its loop again: it observes the stop signal.
C38_OnePollingThread ==
    [][/\ Cardinality(AliveThreads') <= 1
       /\ \A t \in asked :
            ~(bot_threads[t] = "test" /\ bot_threads'[t] = "iteration")]_vars

\* the first half of C38 alone
AtMostOneBotLoop == Cardinality(AliveThreads) <= 1

\* what the guard of /start does keep: a thread is launched only while
\* bot_state.running is false
StartOnlyWhenNotRunning ==
    [][(\E t \in BotThreads : bot_threads[t] = "unstarted" /\ bot_threads'[t] = "init")
          => ~bot_running /\ bot_running']_vars

-----------------------------------------------------------------------------
(* The callers of AutoSolver.solve_and_submit: run_loop's run_once, the    *)
(* /auto-solver/run-once endpoint's run_once and /solve-assigned. Each     *)
(* runs in a thread of its own; solve_and_submit is taken as a whole here, *)
(* by the state it leaves the order in.                                    *)

\* how many times solve_and_submit is begun for one order in one run
MaxSolves == 2

\* check_order_needs_solving returns the order's info, not None
check_order_needs_solving(o) ==
    /\ o \notin processed_orders
    /\ o \in assigned
    /\ ostatus[o] \in {OPEN, ACCEPTED}
    /\ ~(time_left[o] < min_time_margin)

\* what a step of a caller leaves alone
CallerFrame ==
    UNCHANGED <<osolver, ocommit, assigned, pending, stop_event, th, nsalt,
                reveals, reveal_submitted, gave_up, botAux, bot_running,
                bot_threads, asked, idxVars, lsnVars, orcVars, apiVars, sdkVars,
                ntfVars, auxVars>>

\* order_info = check_order_needs_solving(order_id), for an order id of the
\* assignment events (run_once) or of the request (/solve-assigned)
CallerCheck(c, o) ==
    /\ callers[c].pc = "idle"
    /\ check_order_needs_solving(o)
    /\ callers' = [callers EXCEPT ![c] = [pc |-> "checked", order |-> o]]
    /\ UNCHANGED <<ostatus, active_orders, processed_orders, solve_started>>
    /\ CallerFrame

\* run_once: processed_orders.add, active_orders.add, then solve_and_submit;
\* solve_assigned_order: solve_and_submit right away
CallerSolve(c) ==
    LET o == callers[c].order
    IN  /\ callers[c].pc = "checked"
        /\ solve_started[o] < MaxSolves
        /\ solve_started' = [solve_started EXCEPT ![o] = @ + 1]
        /\ callers' = [callers EXCEPT ![c].pc = "solving"]
        /\ IF c = "solve_assigned"
           THEN UNCHANGED <<processed_orders, active_orders>>
           ELSE /\ processed_orders' = processed_orders \cup {o}
                /\ active_orders' = active_orders \cup {o}
        /\ UNCHANGED ostatus
        /\ CallerFrame

\* how solve_and_submit ends: commit and reveal mined (True), the commit not
\* mined, or the commit mined and the reveal not (False)
SolveOutcomes == {"solved", "commit_failed", "reveal_failed"}

\* solve_and_submit returns; run_once discards the order from active_orders
CallerReturn(c) ==
    LET o == callers[c].order
    IN  /\ callers[c].pc = "solving"
        /\ callers' = [callers EXCEPT ![c] = IdleCaller]
        /\ \E outcome \in SolveOutcomes :
             ostatus' = IF ostatus[o] \notin {OPEN, ACCEPTED, COMMITTED}
                           \/ outcome = "commit_failed"
                        THEN ostatus
                        ELSE IF outcome = "solved"
                             THEN [ostatus EXCEPT ![o] = REVEALED]
                             ELSE [ostatus EXCEPT ![o] = COMMITTED]
        /\ active_orders' = IF c = "solve_assigned" THEN active_orders
                            ELSE active_orders \ {o}
        /\ UNCHANGED <<processed_orders, solve_started>>
        /\ CallerFrame


InitAutoSolverSpec ==
    /\ InitIdx
    /\ ledger = <<>>
    /\ InitListenerIdle
    /\ InitBot
    /\ InitOracle
    /\ InitAuxIdle
    /\ InitCtlStarted
    /\ InitApiIdle
    /\ InitSdkIdle

NextAutoSolverCalls ==
    \/ \E o \in Orders : AssignToBot(o)
    \/ \E c \in SolverCallers, o \in Orders : CallerCheck(c, o)
    \/ \E c \in SolverCallers : CallerSolve(c)
    \/ \E c \in SolverCallers : CallerReturn(c)

SpecAutoSolver == InitAutoSolverSpec /\ [][NextAutoSolverCalls]_vars

\* C39: the AutoSolver begins solve_and_submit for one order id at most once
\* in the life of the process, whatever the first attempt came to and
\* whichever of run_loop, /auto-solver/run-once and /solve-assigned asks.
C39_SolvedAtMostOnce == \A o \in Orders : solve_started[o] <= 1

\* what processed_orders does keep: once run_once has entered an order, no
\* caller passes check_order_needs_solving for it
ProcessedOrderIsNotChecked ==
    [][\A c \in SolverCallers, o \in Orders :
          (o \in processed_orders /\ callers[c].pc = "idle") =>
              ~(callers'[c].pc = "checked" /\ callers'[c].order = o)]_vars

=============================================================================
